---- MODULE Spec2Model ----
(***************************************************************************)
(* A model of the block-device simulator and the file system built on it   *)
(* (Course_Design/Project_C_FileSystem).                                   *)
(*                                                                         *)
(* Conventions.                                                            *)
(*  - A disk block is a function from 0..BLOCK_SIZE-1 to cells.  A cell    *)
(*    is one unit of storage: a byte of file data or of a bitmap, or one   *)
(*    packed record (superblock, inode, directory entry).  sizeof of a     *)
(*    record is therefore one cell, and BLOCK_SIZE / sizeof(record) cells   *)
(*    fit in a block.  A zero cell read as a record is the all-zero record, *)
(*    exactly as memset(0) memory is in the source.                        *)
(*  - The geometry (BLOCK_SIZE, DIRECT_BLOCKS, table sizes) is scaled down; *)
(*    codes, uids, permission bits and block numbers of the layout keep    *)
(*    the values of the source.                                            *)
(*  - Timestamps and latency averages are not modelled.  The host OS is    *)
(*    assumed not to fail (open, lseek, read, write, fsync succeed).       *)
(*  - Every C function is an operator from the state it reads to a record  *)
(*    of its return value and the state it leaves; an action applies one   *)
(*    public entry point to the global state.                              *)
(***************************************************************************)
EXTENDS Integers, Sequences, FiniteSets, TLC

VARIABLES
    host,          \* the backing file of the host OS: existence, header, blocks
    g_disk_state,  \* disk_simulator.c: the session state
    g_fs_state,    \* fs_ops.c: superblock, bitmaps, handle table, users
    call,          \* the last call made: operation, arguments, result
    shadow,        \* history: per block, the data of the last successful write
    rt             \* history: progress of a write / seek / read round trip

vars == <<host, g_disk_state, g_fs_state, call, shadow, rt>>

(***************************************************************************)
(* Geometry of the model (scaled) and bounds of the exploration.           *)
(***************************************************************************)
BLOCK_SIZE == 3
DIRECT_BLOCKS == 2
MAX_OPEN_FILES == 2
MAX_USERS == 3
FS_DEFAULT_MAX_INODES == 7
MaxDataBlocks == 4
MaxSmallDisk == 2
MaxByte == 2
MaxStat == 2

(***************************************************************************)
(* Constants of the source, with their values.                             *)
(***************************************************************************)
DISK_MAGIC_HEADER == 1146309409
DISK_VERSION == 1
DISK_SUCCESS == 0
DISK_ERROR_INVALID_PARAM == -1
DISK_ERROR_FILE_READ == -4
DISK_ERROR_BLOCK_RANGE == -7
DISK_ERROR_NOT_INIT == -8
DISK_ERROR_ALREADY_INIT == -9
DISK_ERROR_IO == -11
DISK_ERROR_CORRUPTED == -12

Min(a, b) == IF a < b THEN a ELSE b
Max(a, b) == IF a > b THEN a ELSE b

\* Only([x \in {v} |-> e]) is e with x standing for the value v: the local
\* variable of a C function that receives the result of a call.
Only(f) == CHOOSE y \in {g[CHOOSE x \in DOMAIN g : TRUE] : g \in {f}} : TRUE

(***************************************************************************)
(* Cells and blocks.                                                       *)
(***************************************************************************)
ByteCell(v) == [t |-> "byte", v |-> v]
ZeroCell == ByteCell(0)
ZeroBlock == [i \in 0..(BLOCK_SIZE - 1) |-> ZeroCell]
\* memset(block, pattern, DISK_BLOCK_SIZE)
PatternBlock(v) == [i \in 0..(BLOCK_SIZE - 1) |-> ByteCell(v)]
\* the test buffers: byte i of the block is a function of i
RampBlock(v) == [i \in 0..(BLOCK_SIZE - 1) |-> ByteCell((v + i) % 256)]

(***************************************************************************)
(* disk_simulator.c                                                        *)
(***************************************************************************)
\* The checksums of the source are 32-bit sums and CRCs over the bytes of a
\* record; the model keeps a digest of the fields modulo DIGEST_MOD, which
\* changes whenever one field changes by less than DIGEST_MOD.
DIGEST_MOD == 65521
calculate_checksum(h) ==
    ((h.magic_number % DIGEST_MOD) + 3 * (h.version % DIGEST_MOD)
        + 5 * (h.block_size % DIGEST_MOD) + 7 * (h.total_blocks % DIGEST_MOD)
        + 11 * (h.disk_size % DIGEST_MOD)) % DIGEST_MOD

create_disk_header(total_blocks) ==
    LET h0 == [magic_number |-> DISK_MAGIC_HEADER, version |-> DISK_VERSION,
               block_size |-> BLOCK_SIZE, total_blocks |-> total_blocks,
               disk_size |-> total_blocks * BLOCK_SIZE, checksum |-> 0]
    IN  [h0 EXCEPT !.checksum = calculate_checksum(h0)]

\* the variant that tests the magic number only
validate_disk_header_magic_only(h) ==
    IF h.magic_number # DISK_MAGIC_HEADER THEN DISK_ERROR_CORRUPTED ELSE DISK_SUCCESS

validate_disk_header(h) ==
    IF h.magic_number # DISK_MAGIC_HEADER THEN DISK_ERROR_CORRUPTED
    ELSE IF h.version # DISK_VERSION THEN DISK_ERROR_CORRUPTED
    ELSE IF h.block_size # BLOCK_SIZE THEN DISK_ERROR_CORRUPTED
    ELSE IF calculate_checksum(h) # h.checksum THEN DISK_ERROR_CORRUPTED
    ELSE DISK_SUCCESS

ZeroStats == [total_reads |-> 0, total_writes |-> 0,
              bytes_read |-> 0, bytes_written |-> 0]
\* g_disk_state = {0}
ZeroDiskState == [fd |-> 0, total_blocks |-> 0, is_initialized |-> FALSE,
                  is_read_only |-> FALSE, is_dirty |-> FALSE, stats |-> ZeroStats]
NoHost == [exists |-> FALSE, header |-> create_disk_header(0), blocks |-> <<>>]

\* A world is the pair the disk functions work on: the backing file and the session.
World(h, d) == [host |-> h, disk |-> d]

\* the counters are uint64 in the source; the model saturates them at MaxStat
update_stats_read(d) ==
    [d EXCEPT !.stats.total_reads = Min(@ + 1, MaxStat),
              !.stats.bytes_read = Min(@ + BLOCK_SIZE, MaxStat * BLOCK_SIZE)]

\* the variant that counts the write and does not mark the session
update_stats_write_clean(d) ==
    [d EXCEPT !.stats.total_writes = Min(@ + 1, MaxStat),
              !.stats.bytes_written = Min(@ + BLOCK_SIZE, MaxStat * BLOCK_SIZE)]

update_stats_write(d) ==
    [d EXCEPT !.stats.total_writes = Min(@ + 1, MaxStat),
              !.stats.bytes_written = Min(@ + BLOCK_SIZE, MaxStat * BLOCK_SIZE),
              !.is_dirty = TRUE]

disk_check_block_bounds_lax(d, block_num) ==
    block_num >= 0 /\ d.is_initialized /\ block_num <= d.total_blocks
disk_check_block_bounds(d, block_num) ==
    block_num >= 0 /\ d.is_initialized /\ block_num < d.total_blocks

\* int disk_init(const char* filename, int disk_size); filename is the one backing file
disk_init(w, disk_size) ==
    IF disk_size <= 0 THEN [ret |-> DISK_ERROR_INVALID_PARAM, w |-> w]
    ELSE IF w.disk.is_initialized THEN [ret |-> DISK_ERROR_ALREADY_INIT, w |-> w]
    ELSE IF disk_size % BLOCK_SIZE # 0 THEN [ret |-> DISK_ERROR_INVALID_PARAM, w |-> w]
    ELSE
      LET total_blocks == disk_size \div BLOCK_SIZE
          ready(n) == [ZeroDiskState EXCEPT !.fd = 3, !.total_blocks = n,
                                            !.is_initialized = TRUE]
      IN  IF w.host.exists
          THEN LET v == validate_disk_header(w.host.header)
               IN  IF v # DISK_SUCCESS
                   THEN [ret |-> v, w |-> World(w.host, ZeroDiskState)]
                   ELSE IF Len(w.host.blocks) < w.host.header.total_blocks
                   THEN [ret |-> DISK_ERROR_CORRUPTED,
                         w |-> World(w.host, [ZeroDiskState EXCEPT
                                  !.total_blocks = w.host.header.total_blocks])]
                   ELSE [ret |-> DISK_SUCCESS,
                         w |-> World(w.host, ready(w.host.header.total_blocks))]
          ELSE [ret |-> DISK_SUCCESS,
                w |-> World([exists |-> TRUE,
                             header |-> create_disk_header(total_blocks),
                             blocks |-> [i \in 1..total_blocks |-> ZeroBlock]],
                            ready(total_blocks))]

\* The blocks of the backing file are kept as a sequence after the header:
\* the block at offset o of the data area is blocks[o + 1].
DISK_BLOCK_TO_OFFSET_shared(block_num) == 0
DISK_BLOCK_TO_OFFSET(block_num) == block_num

disk_write_block(w, block_num, data) ==
    IF ~w.disk.is_initialized THEN [ret |-> DISK_ERROR_NOT_INIT, w |-> w]
    ELSE IF w.disk.is_read_only THEN [ret |-> DISK_ERROR_IO, w |-> w]
    ELSE IF ~disk_check_block_bounds(w.disk, block_num)
    THEN [ret |-> DISK_ERROR_BLOCK_RANGE, w |-> w]
    ELSE LET at == DISK_BLOCK_TO_OFFSET(block_num) + 1
         IN  [ret |-> DISK_SUCCESS,
              w |-> World([w.host EXCEPT !.blocks =
                              [i \in 1..Max(Len(@), at) |->
                                  IF i = at THEN data
                                  ELSE IF i <= Len(@) THEN @[i] ELSE ZeroBlock]],
                          update_stats_write(w.disk))]

\* buf is the caller's buffer after the call (the model's callers pass a zeroed one)
disk_read_block(w, block_num) ==
    IF ~w.disk.is_initialized
    THEN [ret |-> DISK_ERROR_NOT_INIT, w |-> w, buf |-> ZeroBlock]
    ELSE IF ~disk_check_block_bounds(w.disk, block_num)
    THEN [ret |-> DISK_ERROR_BLOCK_RANGE, w |-> w, buf |-> ZeroBlock]
    ELSE LET at == DISK_BLOCK_TO_OFFSET(block_num) + 1
         IN  IF at > Len(w.host.blocks)
             THEN [ret |-> DISK_ERROR_FILE_READ, w |-> w, buf |-> ZeroBlock]
             ELSE [ret |-> DISK_SUCCESS,
                   w |-> World(w.host, update_stats_read(w.disk)),
                   buf |-> w.host.blocks[at]]

\* the variant that does not ask whether a session is open
disk_sync_unchecked(w) ==
    [ret |-> DISK_SUCCESS, w |-> World(w.host, [w.disk EXCEPT !.is_dirty = FALSE])]

disk_sync(w) ==
    IF ~w.disk.is_initialized THEN [ret |-> DISK_ERROR_NOT_INIT, w |-> w]
    ELSE IF w.disk.fd = -1 THEN [ret |-> DISK_ERROR_IO, w |-> w]
    ELSE [ret |-> DISK_SUCCESS, w |-> World(w.host, [w.disk EXCEPT !.is_dirty = FALSE])]

disk_close(w) ==
    IF ~w.disk.is_initialized THEN [ret |-> DISK_ERROR_NOT_INIT, w |-> w]
    ELSE LET s == IF w.disk.is_dirty THEN disk_sync(w).w ELSE w
         IN  [ret |-> DISK_SUCCESS,
              w |-> World(s.host, [ZeroDiskState EXCEPT !.fd = -1])]

\* the loop of disk_format, from block i on
RECURSIVE disk_format_from(_, _, _)
disk_format_from(w, i, blk) ==
    IF i >= w.disk.total_blocks THEN disk_sync(w)
    ELSE LET r == disk_write_block(w, i, blk)
         IN  IF r.ret # DISK_SUCCESS THEN r ELSE disk_format_from(r.w, i + 1, blk)

disk_format(w, pattern) ==
    IF ~w.disk.is_initialized THEN [ret |-> DISK_ERROR_NOT_INIT, w |-> w]
    ELSE IF w.disk.is_read_only THEN [ret |-> DISK_ERROR_IO, w |-> w]
    ELSE disk_format_from(w, 0, PatternBlock(pattern))

(***************************************************************************)
(* fs.h, fs_ops.h: constants and records                                   *)
(***************************************************************************)
FS_MAGIC_NUMBER == 1397117729
ROOT_INODE_NUM == 1
FS_FILE_TYPE_REGULAR == 1
FS_FILE_TYPE_DIRECTORY == 2
FS_PERM_OWNER_READ == 256
FS_PERM_OWNER_WRITE == 128
FS_PERM_OWNER_EXEC == 64
FS_PERM_GROUP_READ == 32
FS_PERM_GROUP_WRITE == 16
FS_PERM_GROUP_EXEC == 8
FS_PERM_OTHER_READ == 4
FS_PERM_OTHER_WRITE == 2
FS_PERM_OTHER_EXEC == 1
FS_SUCCESS == 0
FS_ERROR_INVALID_PARAM == -1
FS_ERROR_NO_MEMORY == -2
FS_ERROR_NO_SPACE == -3
FS_ERROR_FILE_NOT_FOUND == -4
FS_ERROR_FILE_EXISTS == -5
FS_ERROR_NOT_DIRECTORY == -6
FS_ERROR_IS_DIRECTORY == -7
FS_ERROR_PERMISSION == -8
FS_ERROR_TOO_MANY_OPEN == -10
FS_ERROR_IO == -11
FS_ERROR_CORRUPTED == -12
FS_SUPERBLOCK_BLOCK == 0
FS_INODE_BITMAP_BLOCK == 1
FS_DATA_BITMAP_BLOCK == 2
FS_INODE_TABLE_START == 8
FS_BITMAP_BLOCKS == 4
FS_ROOT_PERMISSIONS == 493
FS_ROOT_UID == 0
FS_ROOT_GID == 0
FS_NEW_FILE_PERMISSIONS == 420
MAX_FILENAME_LEN == 64
\* uint32_t arithmetic.  The integers of the model end at 2^31 - 1, so a value
\* that wraps below zero is kept as far below UINT32_TOP as it is below 2^32 in
\* the source: it stays larger than every count of the model.
UINT32_TOP == 2147483647
U32(x) == IF x < 0 THEN UINT32_TOP + x ELSE x
\* sizeof(fs_inode_t), sizeof(fs_dir_entry_t), sizeof(fs_superblock_t), in cells
SIZEOF_RECORD == 1

\* the layout arithmetic of fs_ops_init_superblock and of the inode reads and
\* writes, for a table of total_inodes records of sizeof_inode bytes in blocks
\* of block_size bytes: the blocks the table is given, and the block that
\* inode_number is looked for in
InodeTableBlocks(total_inodes, sizeof_inode, block_size) ==
    (total_inodes * sizeof_inode + block_size - 1) \div block_size
InodeBlockNum(table_start, inode_number, sizeof_inode, block_size) ==
    table_start + (inode_number \div (block_size \div sizeof_inode))

\* the constants of the build: DISK_BLOCK_SIZE, the number of inodes, the
\* number of direct pointers, and sizeof(fs_inode_t), a packed structure of
\* 116 bytes and four time_t (of 4 or of 8 bytes, the build decides)
DISK_BLOCK_SIZE == 1024
MAX_INODES == 1024
SIZEOF_INODE_FIXED == 116
TimeTSizes == {4, 8}
SizeofInode(sizeof_time_t) == SIZEOF_INODE_FIXED + 4 * sizeof_time_t

\* a uint32 whose four bytes are all b
WordOfByte(b) == b * 16843009

ZeroSuperblock ==
    [magic_number |-> 0, version |-> 0, block_size |-> 0, total_blocks |-> 0,
     total_inodes |-> 0, free_blocks |-> 0, free_inodes |-> 0,
     inode_table_start |-> 0, inode_table_blocks |-> 0, data_blocks_start |-> 0,
     root_inode |-> 0, mount_count |-> 0, max_mount_count |-> 0, checksum |-> 0]

ZeroInode ==
    [inode_number |-> 0, file_type |-> 0, permissions |-> 0, owner_uid |-> 0,
     owner_gid |-> 0, link_count |-> 0, file_size |-> 0, block_count |-> 0,
     direct_blocks |-> [i \in 0..(DIRECT_BLOCKS - 1) |-> 0]]

ZeroDirEntry ==
    [inode_number |-> 0, entry_length |-> 0, filename_length |-> 0,
     file_type |-> 0, filename |-> <<>>, is_valid |-> 0]

\* memcpy of a cell into a record of another layout: a byte cell gives the record
\* whose fields are all made of that byte; a record of another type gives junk
\* fields (the other record's bytes), which no comparison in the model matches.
JunkWord == 2004318071
JunkName == <<"?">>
CellAsSuperblock(c) ==
    IF c.t = "sb" THEN c.sb
    ELSE LET x == IF c.t = "byte" THEN WordOfByte(c.v) ELSE JunkWord
         IN  [f \in DOMAIN ZeroSuperblock |-> x]
CellAsInode(c) ==
    IF c.t = "inode" THEN c.ino
    ELSE LET x == IF c.t = "byte" THEN WordOfByte(c.v) ELSE JunkWord
         IN  [ZeroInode EXCEPT !.inode_number = x, !.file_type = x % 65536,
                !.permissions = x % 65536, !.owner_uid = x, !.owner_gid = x,
                !.link_count = x, !.file_size = x, !.block_count = x,
                !.direct_blocks = [i \in 0..(DIRECT_BLOCKS - 1) |-> x]]
CellAsDirEntry(c) ==
    IF c.t = "dirent" THEN c.de
    ELSE IF c.t = "byte" /\ c.v = 0 THEN ZeroDirEntry
    ELSE LET x == IF c.t = "byte" THEN WordOfByte(c.v) ELSE JunkWord
         IN  [ZeroDirEntry EXCEPT !.inode_number = x, !.filename = JunkName,
                                  !.is_valid = 1]
\* a record cell read as a byte of file or bitmap data: some byte of the record
JunkByte == 127
CellAsByte(c) == IF c.t = "byte" THEN c.v ELSE JunkByte
SuperblockCell(sb) == [t |-> "sb", sb |-> sb]
InodeCell(ino) == [t |-> "inode", ino |-> ino]
\* the entry is stored with its valid flag cleared
DirEntryCell_invalid(e) == [t |-> "dirent", de |-> [e EXCEPT !.is_valid = 0]]
DirEntryCell(e) == [t |-> "dirent", de |-> e]

\* fs_bitmap_t; bitmap == NULL is has_bitmap = FALSE
ZeroBitmap == [has_bitmap |-> FALSE, bitmap |-> <<>>, total_bits |-> 0,
               free_count |-> 0, last_allocated |-> 0]
ZeroHandle == [inode_number |-> 0, flags |-> 0, file_position |-> 0,
               reference_count |-> 0, owner_uid |-> 0]
\* password_hash: the 32-bit hash the "%08x" text encodes; -1 is the empty string
EmptyHash == -1
ZeroUser == [uid |-> 0, gid |-> 0, username |-> "", password_hash |-> EmptyHash,
             is_active |-> 0]
\* fs_state_t g_fs_state = {0}
ZeroFsState ==
    [superblock |-> ZeroSuperblock, inode_bitmap |-> ZeroBitmap,
     block_bitmap |-> ZeroBitmap,
     open_files |-> [fd \in 0..(MAX_OPEN_FILES - 1) |-> ZeroHandle],
     users |-> [i \in 0..(MAX_USERS - 1) |-> ZeroUser],
     current_user_uid |-> 0]

(***************************************************************************)
(* fs_ops.c: superblock                                                    *)
(***************************************************************************)
\* fs_ops_calculate_checksum over the fields before checksum, as an arithmetic digest
fs_ops_calculate_checksum(sb) ==
    LET m(x) == x % DIGEST_MOD
    IN  (m(sb.magic_number) + 3 * m(sb.version) + 5 * m(sb.block_size)
           + 7 * m(sb.total_blocks) + 11 * m(sb.total_inodes)
           + 13 * m(sb.free_blocks) + 17 * m(sb.free_inodes)
           + 19 * m(sb.inode_table_start) + 23 * m(sb.inode_table_blocks)
           + 29 * m(sb.data_blocks_start) + 31 * m(sb.root_inode)
           + 37 * m(sb.mount_count) + 41 * m(sb.max_mount_count) + 1) % DIGEST_MOD

fs_ops_init_superblock(total_blocks) ==
    LET table_blocks ==
            InodeTableBlocks(FS_DEFAULT_MAX_INODES, SIZEOF_RECORD, BLOCK_SIZE)
        data_start == FS_INODE_TABLE_START + table_blocks
        sb0 == [ZeroSuperblock EXCEPT
                  !.magic_number = FS_MAGIC_NUMBER, !.version = 1,
                  !.block_size = BLOCK_SIZE, !.total_blocks = total_blocks,
                  !.total_inodes = FS_DEFAULT_MAX_INODES,
                  !.inode_table_start = FS_INODE_TABLE_START,
                  !.inode_table_blocks = table_blocks,
                  !.data_blocks_start = data_start,
                  !.free_blocks = U32(total_blocks - data_start),
                  !.free_inodes = FS_DEFAULT_MAX_INODES - 1,
                  !.root_inode = ROOT_INODE_NUM,
                  !.mount_count = 0, !.max_mount_count = 100]
    IN  [sb0 EXCEPT !.checksum = fs_ops_calculate_checksum(sb0)]

fs_ops_write_superblock(w, sb) ==
    Only([r \in {disk_write_block(w, FS_SUPERBLOCK_BLOCK,
                          [ZeroBlock EXCEPT ![0] = SuperblockCell(sb)])} |->
    [ret |-> IF r.ret # DISK_SUCCESS THEN FS_ERROR_IO ELSE FS_SUCCESS, w |-> r.w]])

\* sb is the caller's superblock, overwritten as soon as the block has been read
fs_ops_read_superblock(w, sb) ==
    Only([r \in {disk_read_block(w, FS_SUPERBLOCK_BLOCK)} |->
    IF r.ret # DISK_SUCCESS THEN [ret |-> FS_ERROR_IO, w |-> r.w, sb |-> sb]
    ELSE Only([got \in {CellAsSuperblock(r.buf[0])} |->
         IF got.magic_number # FS_MAGIC_NUMBER
         THEN [ret |-> FS_ERROR_CORRUPTED, w |-> r.w, sb |-> got]
         ELSE IF got.checksum # fs_ops_calculate_checksum(got)
         THEN [ret |-> FS_ERROR_CORRUPTED, w |-> r.w, sb |-> got]
         ELSE [ret |-> FS_SUCCESS, w |-> r.w, sb |-> got]])])

(***************************************************************************)
(* fs_ops.c: bitmaps.  The bitmap in memory is an array of bytes; bit n is *)
(* bit n % 8 of byte n / 8.                                                *)
(***************************************************************************)
RECURSIVE Pow2(_)
Pow2(n) == IF n = 0 THEN 1 ELSE 2 * Pow2(n - 1)
BitmapBytes(total_bits) == (total_bits + 7) \div 8
\* bitmap->bitmap[byte_index] & (1 << bit_offset)
TestBit(bytes, bit_num) == (bytes[bit_num \div 8] \div Pow2(bit_num % 8)) % 2 = 1

\* calloc is assumed to succeed
fs_ops_init_bitmap(bm, total_bits) ==
    IF total_bits = 0 THEN [ret |-> FS_ERROR_INVALID_PARAM, bm |-> bm]
    ELSE [ret |-> FS_SUCCESS,
          bm |-> [has_bitmap |-> TRUE,
                  bitmap |-> [i \in 0..(BitmapBytes(total_bits) - 1) |-> 0],
                  total_bits |-> total_bits, free_count |-> total_bits,
                  last_allocated |-> 0]]

\* the bit is set, the free count is not lowered
set_bitmap_bit_keeps_count(bm, bit_num) ==
    IF ~bm.has_bitmap \/ bit_num >= bm.total_bits \/ bit_num < 0 THEN bm
    ELSE IF TestBit(bm.bitmap, bit_num) THEN bm
    ELSE [bm EXCEPT !.bitmap[bit_num \div 8] = @ + Pow2(bit_num % 8)]

set_bitmap_bit(bm, bit_num) ==
    IF ~bm.has_bitmap \/ bit_num >= bm.total_bits \/ bit_num < 0 THEN bm
    ELSE IF TestBit(bm.bitmap, bit_num) THEN bm
    ELSE [bm EXCEPT !.bitmap[bit_num \div 8] = @ + Pow2(bit_num % 8),
                    !.free_count = U32(@ - 1)]

RECURSIVE write_bitmap_from(_, _, _, _, _)
write_bitmap_from(w, bm, start_block, block_count, block) ==
    LET bitmap_bytes == BitmapBytes(bm.total_bits)
        bytes_written == block * BLOCK_SIZE
        buffer == [i \in 0..(BLOCK_SIZE - 1) |->
                     IF bytes_written + i < bitmap_bytes
                     THEN ByteCell(bm.bitmap[bytes_written + i])
                     ELSE ZeroCell]
    IN  IF ~(block < block_count /\ bytes_written < bitmap_bytes)
        THEN [ret |-> FS_SUCCESS, w |-> w]
        ELSE Only([r \in {disk_write_block(w, start_block + block, buffer)} |->
             IF r.ret # DISK_SUCCESS THEN [ret |-> FS_ERROR_IO, w |-> r.w]
             ELSE write_bitmap_from(r.w, bm, start_block, block_count, block + 1)])

fs_ops_write_bitmap(w, bm, start_block, block_count) ==
    LET bitmap_bytes == BitmapBytes(bm.total_bits)
        total_bytes_needed ==
            ((bitmap_bytes + BLOCK_SIZE - 1) \div BLOCK_SIZE) * BLOCK_SIZE
    IN  IF ~bm.has_bitmap THEN [ret |-> FS_ERROR_INVALID_PARAM, w |-> w]
        ELSE IF total_bytes_needed > block_count * BLOCK_SIZE
        THEN [ret |-> FS_ERROR_NO_SPACE, w |-> w]
        ELSE write_bitmap_from(w, bm, start_block, block_count, 0)

\* the bytes copied so far are kept although a later block fails to read
RECURSIVE read_bitmap_from(_, _, _, _, _)
read_bitmap_from(w, bm, start_block, block_count, block) ==
    LET bitmap_bytes == BitmapBytes(bm.total_bits)
        bytes_read == block * BLOCK_SIZE
    IN  IF ~(block < block_count /\ bytes_read < bitmap_bytes)
        THEN [ret |-> FS_SUCCESS, w |-> w, bm |-> bm]
        ELSE Only([r \in {disk_read_block(w, start_block + block)} |->
             IF r.ret # DISK_SUCCESS
             THEN [ret |-> FS_ERROR_IO, w |-> r.w, bm |-> bm]
             ELSE read_bitmap_from(r.w,
                      [bm EXCEPT !.bitmap =
                          [i \in DOMAIN bm.bitmap |->
                              IF i >= bytes_read /\ i < bytes_read + BLOCK_SIZE
                              THEN CellAsByte(r.buf[i - bytes_read])
                              ELSE bm.bitmap[i]]],
                      start_block, block_count, block + 1)])

\* total_bits is the one in memory: the function reads as many bits as the
\* caller's bitmap already has.  With total_bits = 0 nothing is read.
\* the variant that leaves the free count of the caller's bitmap as it is
fs_ops_read_bitmap_keeps_count(w, bm, start_block, block_count) ==
    read_bitmap_from(w, bm, start_block, block_count, 0)

fs_ops_read_bitmap(w, bm, start_block, block_count) ==
    Only([r \in {read_bitmap_from(w, bm, start_block, block_count, 0)} |->
    IF r.ret # FS_SUCCESS THEN r
    ELSE [ret |-> FS_SUCCESS, w |-> r.w,
          bm |-> [r.bm EXCEPT !.free_count =
                    Cardinality({i \in 0..(r.bm.total_bits - 1) :
                                   ~TestBit(r.bm.bitmap, i)})]]])

(***************************************************************************)
(* fs_ops.c: root directory and format                                     *)
(***************************************************************************)
InodesPerBlock == BLOCK_SIZE \div SIZEOF_RECORD
EntriesPerBlock == BLOCK_SIZE \div SIZEOF_RECORD
DotName == <<".">>
DotDotName == <<".", ".">>

\* works on the pair of the world and the file-system state; returns both
fs_ops_create_root_directory(w, fs) ==
    LET data_block == fs.superblock.data_blocks_start
        root_inode == [ZeroInode EXCEPT
                         !.inode_number = ROOT_INODE_NUM,
                         !.file_type = FS_FILE_TYPE_DIRECTORY,
                         !.permissions = FS_ROOT_PERMISSIONS,
                         !.owner_uid = FS_ROOT_UID, !.owner_gid = FS_ROOT_GID,
                         !.link_count = 2,
                         !.direct_blocks[0] = data_block,
                         !.block_count = 1,
                         !.file_size = 2 * SIZEOF_RECORD]
        entry(name) == [inode_number |-> ROOT_INODE_NUM,
                        entry_length |-> SIZEOF_RECORD,
                        filename_length |-> Len(name),
                        file_type |-> FS_FILE_TYPE_DIRECTORY,
                        filename |-> name, is_valid |-> 1]
        dir_block == [i \in 0..(BLOCK_SIZE - 1) |->
                        IF i = 0 THEN DirEntryCell(entry(DotName))
                        ELSE IF i = 1 THEN DirEntryCell(entry(DotDotName))
                        ELSE ZeroCell]
        inode_block_num == fs.superblock.inode_table_start
                             + (ROOT_INODE_NUM \div InodesPerBlock)
        inode_offset == ROOT_INODE_NUM % InodesPerBlock
    IN  Only([w1 \in {disk_write_block(w, data_block, dir_block)} |->
        IF w1.ret # DISK_SUCCESS THEN [ret |-> FS_ERROR_IO, w |-> w1.w, fs |-> fs]
        ELSE
        Only([rd \in {disk_read_block(w1.w, inode_block_num)} |->
        Only([inode_block \in {IF rd.ret # DISK_SUCCESS THEN ZeroBlock ELSE rd.buf} |->
        Only([w2 \in {disk_write_block(rd.w, inode_block_num,
                 [inode_block EXCEPT ![inode_offset] = InodeCell(root_inode)])} |->
        IF w2.ret # DISK_SUCCESS THEN [ret |-> FS_ERROR_IO, w |-> w2.w, fs |-> fs]
        ELSE [ret |-> FS_SUCCESS, w |-> w2.w,
              fs |-> [fs EXCEPT
                        !.inode_bitmap = set_bitmap_bit(@, ROOT_INODE_NUM),
                        !.block_bitmap = set_bitmap_bit(@,
                            data_block - fs.superblock.data_blocks_start)]]])])])])

\* free(bitmap); bitmap = NULL: the counters of the structure stay
free_bitmap_memory(bm) == [bm EXCEPT !.has_bitmap = FALSE, !.bitmap = <<>>]

\* the cleanup label of format_disk
format_cleanup(fs) ==
    [fs EXCEPT !.inode_bitmap = free_bitmap_memory(@),
               !.block_bitmap = free_bitmap_memory(@)]

\* void format_disk(void): returns the world and the file-system state it leaves.
\* On a disk with fewer blocks than the metadata area the block count of the data
\* bitmap wraps (uint32); its bytes are then never read before the cleanup frees
\* them, and the model does not build them.
format_disk(w, fs) ==
    IF ~w.disk.is_initialized THEN [w |-> w, fs |-> fs]
    ELSE
    Only([total_blocks \in {w.disk.total_blocks} |->
    Only([sb1 \in {fs_ops_init_superblock(total_blocks)} |->
    Only([fs1 \in {[fs EXCEPT !.superblock = sb1]} |->
    Only([wsb \in {fs_ops_write_superblock(w, sb1)} |->
    IF wsb.ret # FS_SUCCESS THEN [w |-> wsb.w, fs |-> fs1]
    ELSE
    Only([ib \in {fs_ops_init_bitmap(fs1.inode_bitmap, sb1.total_inodes)} |->
    IF ib.ret # FS_SUCCESS THEN [w |-> wsb.w, fs |-> fs1]
    ELSE
    Only([fs2 \in {[fs1 EXCEPT !.inode_bitmap = ib.bm]} |->
    Only([data_blocks_count \in {U32(total_blocks - sb1.data_blocks_start)} |->
    Only([bb \in {IF total_blocks < sb1.data_blocks_start
         THEN [ret |-> FS_SUCCESS,
               bm |-> [has_bitmap |-> TRUE, bitmap |-> <<>>,
                       total_bits |-> data_blocks_count,
                       free_count |-> data_blocks_count, last_allocated |-> 0]]
         ELSE fs_ops_init_bitmap(fs2.block_bitmap, data_blocks_count)} |->
    IF bb.ret # FS_SUCCESS THEN [w |-> wsb.w, fs |-> fs2]
    ELSE
    Only([root \in {fs_ops_create_root_directory(wsb.w, [fs2 EXCEPT !.block_bitmap = bb.bm])} |->
    IF root.ret # FS_SUCCESS THEN [w |-> root.w, fs |-> format_cleanup(root.fs)]
    ELSE
    Only([wib \in {fs_ops_write_bitmap(root.w, root.fs.inode_bitmap,
                             FS_INODE_BITMAP_BLOCK, FS_BITMAP_BLOCKS)} |->
    IF wib.ret # FS_SUCCESS THEN [w |-> wib.w, fs |-> format_cleanup(root.fs)]
    ELSE
    Only([wbb \in {fs_ops_write_bitmap(wib.w, root.fs.block_bitmap,
                             FS_DATA_BITMAP_BLOCK, FS_BITMAP_BLOCKS)} |->
    IF wbb.ret # FS_SUCCESS THEN [w |-> wbb.w, fs |-> format_cleanup(root.fs)]
    ELSE
    Only([sb2a \in {[sb1 EXCEPT !.free_inodes = root.fs.inode_bitmap.free_count,
                     !.free_blocks = root.fs.block_bitmap.free_count,
                     !.checksum = 0]} |->
    Only([sb2 \in {[sb2a EXCEPT !.checksum = fs_ops_calculate_checksum(sb2a)]} |->
    Only([fs4 \in {[root.fs EXCEPT !.superblock = sb2]} |->
    Only([wsb2 \in {fs_ops_write_superblock(wbb.w, sb2)} |->
    IF wsb2.ret # FS_SUCCESS THEN [w |-> wsb2.w, fs |-> format_cleanup(fs4)]
    ELSE [w |-> disk_sync(wsb2.w).w, fs |-> fs4]])])])])])])])])])])])])])])])

(***************************************************************************)
(* fs_ops.c: allocation, paths, inodes, directories                        *)
(***************************************************************************)
\* the variant that starts the search at the bit after last_allocated
alloc_bitmap_bit_after_cursor(bm) ==
    IF ~bm.has_bitmap \/ bm.free_count = 0 THEN [bit |-> 0, bm |-> bm]
    ELSE LET start_bit == bm.last_allocated + 1
             free == {i \in 0..(bm.total_bits - 1) :
                        ~TestBit(bm.bitmap, (start_bit + i) % bm.total_bits)}
         IN  IF free = {} THEN [bit |-> 0, bm |-> bm]
             ELSE LET i0 == CHOOSE i \in free : \A j \in free : i <= j
                      bit_num == (start_bit + i0) % bm.total_bits
                  IN  [bit |-> bit_num,
                       bm |-> [bm EXCEPT
                                 !.bitmap[bit_num \div 8] = @ + Pow2(bit_num % 8),
                                 !.free_count = U32(@ - 1),
                                 !.last_allocated = bit_num]]

\* returns the bit number, 0 for "none free", and the bitmap it leaves
alloc_bitmap_bit(bm) ==
    IF ~bm.has_bitmap \/ bm.free_count = 0 THEN [bit |-> 0, bm |-> bm]
    ELSE LET start_bit == bm.last_allocated
             free == {i \in 0..(bm.total_bits - 1) :
                        ~TestBit(bm.bitmap, (start_bit + i) % bm.total_bits)}
         IN  IF free = {} THEN [bit |-> 0, bm |-> bm]
             ELSE LET i0 == CHOOSE i \in free : \A j \in free : i <= j
                      bit_num == (start_bit + i0) % bm.total_bits
                  IN  [bit |-> bit_num,
                       bm |-> [bm EXCEPT
                                 !.bitmap[bit_num \div 8] = @ + Pow2(bit_num % 8),
                                 !.free_count = U32(@ - 1),
                                 !.last_allocated = bit_num]]

\* the variant that gives no bit back
free_bitmap_bit_keeps_bit(bm, bit_num) == bm

\* the variant that clears the bit and leaves the free count
free_bitmap_bit_keeps_count(bm, bit_num) ==
    IF ~bm.has_bitmap \/ bit_num >= bm.total_bits \/ bit_num < 0 THEN bm
    ELSE IF ~TestBit(bm.bitmap, bit_num) THEN bm
    ELSE [bm EXCEPT !.bitmap[bit_num \div 8] = @ - Pow2(bit_num % 8)]

free_bitmap_bit(bm, bit_num) ==
    IF ~bm.has_bitmap \/ bit_num >= bm.total_bits \/ bit_num < 0 THEN bm
    ELSE IF ~TestBit(bm.bitmap, bit_num) THEN bm
    ELSE [bm EXCEPT !.bitmap[bit_num \div 8] = @ - Pow2(bit_num % 8),
                    !.free_count = @ + 1]

\* A path is a sequence of characters.  strchr(s, '/') != NULL
HasSlash(str) == \E i \in 1..Len(str) : str[i] = "/"
\* strncpy(filename, s, MAX_FILENAME_LEN - 1) and the terminating zero
TruncateName(str) == SubSeq(str, 1, Min(Len(str), MAX_FILENAME_LEN - 1))

\* the variant that takes the whole path as the name
parse_path_whole(path) ==
    [ret |-> FS_SUCCESS, parent_inode |-> ROOT_INODE_NUM, filename |-> TruncateName(path)]

parse_path(path) ==
    IF Len(path) > 0 /\ path[1] = "/"
    THEN LET name_start == SubSeq(path, 2, Len(path))
         IN  IF Len(name_start) = 0
             THEN [ret |-> FS_SUCCESS, parent_inode |-> ROOT_INODE_NUM, filename |-> <<>>]
             ELSE IF HasSlash(name_start)
             THEN [ret |-> FS_ERROR_INVALID_PARAM, parent_inode |-> ROOT_INODE_NUM,
                   filename |-> <<>>]
             ELSE [ret |-> FS_SUCCESS, parent_inode |-> ROOT_INODE_NUM,
                   filename |-> TruncateName(name_start)]
    ELSE IF HasSlash(path)
    THEN [ret |-> FS_ERROR_INVALID_PARAM, parent_inode |-> ROOT_INODE_NUM,
          filename |-> <<>>]
    ELSE [ret |-> FS_SUCCESS, parent_inode |-> ROOT_INODE_NUM,
          filename |-> TruncateName(path)]

fs_ops_read_inode(w, fs, inode_number) ==
    IF inode_number = 0 \/ inode_number >= fs.superblock.total_inodes
    THEN [ret |-> FS_ERROR_INVALID_PARAM, w |-> w, inode |-> ZeroInode]
    ELSE Only([r \in {disk_read_block(w,
                InodeBlockNum(fs.superblock.inode_table_start, inode_number,
                              SIZEOF_RECORD, BLOCK_SIZE))} |->
         IF r.ret # DISK_SUCCESS
         THEN [ret |-> FS_ERROR_IO, w |-> r.w, inode |-> ZeroInode]
         ELSE [ret |-> FS_SUCCESS, w |-> r.w,
               inode |-> CellAsInode(r.buf[inode_number % InodesPerBlock])]])

\* the variant that writes the block without reading it first
fs_ops_write_inode_whole_block(w, fs, inode_number, inode) ==
    IF inode_number = 0 \/ inode_number >= fs.superblock.total_inodes
    THEN [ret |-> FS_ERROR_INVALID_PARAM, w |-> w]
    ELSE
    Only([wr \in {disk_write_block(w,
             InodeBlockNum(fs.superblock.inode_table_start, inode_number, SIZEOF_RECORD, BLOCK_SIZE),
             [ZeroBlock EXCEPT ![inode_number % InodesPerBlock] = InodeCell(inode)])} |->
    IF wr.ret # DISK_SUCCESS THEN [ret |-> FS_ERROR_IO, w |-> wr.w]
    ELSE [ret |-> FS_SUCCESS, w |-> wr.w]])

fs_ops_write_inode(w, fs, inode_number, inode) ==
    IF inode_number = 0 \/ inode_number >= fs.superblock.total_inodes
    THEN [ret |-> FS_ERROR_INVALID_PARAM, w |-> w]
    ELSE
    Only([inode_block_num \in {InodeBlockNum(fs.superblock.inode_table_start, inode_number, SIZEOF_RECORD, BLOCK_SIZE)} |->
    Only([r \in {disk_read_block(w, inode_block_num)} |->
    IF r.ret # DISK_SUCCESS THEN [ret |-> FS_ERROR_IO, w |-> r.w]
    ELSE
    Only([wr \in {disk_write_block(r.w, inode_block_num,
             [r.buf EXCEPT ![inode_number % InodesPerBlock] = InodeCell(inode)])} |->
    IF wr.ret # DISK_SUCCESS THEN [ret |-> FS_ERROR_IO, w |-> wr.w]
    ELSE [ret |-> FS_SUCCESS, w |-> wr.w]])])])

\* the first entry of a block that is valid and carries the name; 0 if none
MatchInBlock(buf, filename) ==
    LET hits == {i \in 0..(EntriesPerBlock - 1) :
                    CellAsDirEntry(buf[i]).is_valid # 0
                    /\ CellAsDirEntry(buf[i]).filename = filename}
    IN  IF hits = {} THEN 0
        ELSE CellAsDirEntry(buf[CHOOSE i \in hits : \A j \in hits : i <= j]).inode_number

\* the loop of find_file_in_directory over the direct blocks, from block_idx on
RECURSIVE find_file_from(_, _, _, _)
find_file_from(w, dir_inode, filename, block_idx) ==
    IF ~(block_idx < DIRECT_BLOCKS /\ dir_inode.direct_blocks[block_idx] # 0)
    THEN [ino |-> 0, w |-> w]
    ELSE
    Only([r \in {disk_read_block(w, dir_inode.direct_blocks[block_idx])} |->
    IF r.ret # DISK_SUCCESS
    THEN find_file_from(r.w, dir_inode, filename, block_idx + 1)
    ELSE
    Only([hit \in {MatchInBlock(r.buf, filename)} |->
    IF hit # 0 THEN [ino |-> hit, w |-> r.w]
    ELSE find_file_from(r.w, dir_inode, filename, block_idx + 1)])])

\* the variant that looks at the first block of the directory only
find_file_in_directory_first_block(w, fs, dir_inode_num, filename) ==
    IF dir_inode_num = 0 THEN [ino |-> 0, w |-> w]
    ELSE
    Only([rd \in {fs_ops_read_inode(w, fs, dir_inode_num)} |->
    IF rd.ret # FS_SUCCESS THEN [ino |-> 0, w |-> rd.w]
    ELSE IF rd.inode.file_type # FS_FILE_TYPE_DIRECTORY THEN [ino |-> 0, w |-> rd.w]
    ELSE find_file_from(rd.w, [rd.inode EXCEPT !.direct_blocks =
                                  [k \in DOMAIN @ |-> IF k = 0 THEN @[k] ELSE 0]],
                        filename, 0)])

find_file_in_directory(w, fs, dir_inode_num, filename) ==
    IF dir_inode_num = 0 THEN [ino |-> 0, w |-> w]
    ELSE
    Only([rd \in {fs_ops_read_inode(w, fs, dir_inode_num)} |->
    IF rd.ret # FS_SUCCESS THEN [ino |-> 0, w |-> rd.w]
    ELSE IF rd.inode.file_type # FS_FILE_TYPE_DIRECTORY THEN [ino |-> 0, w |-> rd.w]
    ELSE find_file_from(rd.w, rd.inode, filename, 0)])

\* the loop of add_file_to_directory over the direct blocks, from block_idx on;
\* dir_inode is the local copy of the directory inode
RECURSIVE add_file_from(_, _, _, _, _, _, _)
add_file_from(w, fs, dir_inode_num, dir_inode, filename, file_inode_num, block_idx) ==
    IF block_idx >= DIRECT_BLOCKS THEN [ret |-> FS_ERROR_NO_SPACE, w |-> w, fs |-> fs]
    ELSE
    Only([fresh \in {dir_inode.direct_blocks[block_idx] = 0} |->
    Only([al \in {IF fresh THEN alloc_bitmap_bit(fs.block_bitmap)
         ELSE [bit |-> 0, bm |-> fs.block_bitmap]} |->
    Only([fs1 \in {[fs EXCEPT !.block_bitmap = al.bm]} |->
    IF fresh /\ al.bit = 0 THEN [ret |-> FS_ERROR_NO_SPACE, w |-> w, fs |-> fs1]
    ELSE
    Only([dir1 \in {IF fresh
         THEN [dir_inode EXCEPT
                 !.direct_blocks[block_idx] = al.bit + fs.superblock.data_blocks_start,
                 !.block_count = @ + 1]
         ELSE dir_inode} |->
    Only([rd \in {IF fresh THEN [ret |-> DISK_SUCCESS, w |-> w, buf |-> ZeroBlock]
         ELSE disk_read_block(w, dir_inode.direct_blocks[block_idx])} |->
    IF rd.ret # DISK_SUCCESS THEN [ret |-> FS_ERROR_IO, w |-> rd.w, fs |-> fs1]
    ELSE
    Only([free \in {{i \in 0..(EntriesPerBlock - 1) : CellAsDirEntry(rd.buf[i]).is_valid = 0}} |->
    IF free = {}
    THEN add_file_from(rd.w, fs1, dir_inode_num, dir1, filename, file_inode_num,
                       block_idx + 1)
    ELSE
    Only([i0 \in {CHOOSE i \in free : \A j \in free : i <= j} |->
    Only([entry \in {[inode_number |-> file_inode_num, entry_length |-> SIZEOF_RECORD,
          filename_length |-> Len(filename), file_type |-> FS_FILE_TYPE_REGULAR,
          filename |-> TruncateName(filename), is_valid |-> 1]} |->
    Only([wr \in {disk_write_block(rd.w, dir1.direct_blocks[block_idx],
                          [rd.buf EXCEPT ![i0] = DirEntryCell(entry)])} |->
    IF wr.ret # DISK_SUCCESS THEN [ret |-> FS_ERROR_IO, w |-> wr.w, fs |-> fs1]
    ELSE [ret |-> FS_SUCCESS,
          w |-> fs_ops_write_inode(wr.w, fs1, dir_inode_num,
                    [dir1 EXCEPT !.file_size = (block_idx + 1) * BLOCK_SIZE]).w,
          fs |-> fs1]])])])])])])])])])

add_file_to_directory(w, fs, dir_inode_num, filename, file_inode_num) ==
    IF dir_inode_num = 0 \/ file_inode_num = 0
    THEN [ret |-> FS_ERROR_INVALID_PARAM, w |-> w, fs |-> fs]
    ELSE
    Only([rd \in {fs_ops_read_inode(w, fs, dir_inode_num)} |->
    IF rd.ret # FS_SUCCESS THEN [ret |-> FS_ERROR_IO, w |-> rd.w, fs |-> fs]
    ELSE IF rd.inode.file_type # FS_FILE_TYPE_DIRECTORY
    THEN [ret |-> FS_ERROR_NOT_DIRECTORY, w |-> rd.w, fs |-> fs]
    ELSE add_file_from(rd.w, fs, dir_inode_num, rd.inode, filename, file_inode_num, 0)])

\* memcpy into a NULL bitmap would be undefined; it does not happen, because a
\* bitmap that has lost its memory (cleanup of format_disk) belongs to a
\* superblock whose magic is valid, and the state is then never loaded.
load_filesystem_state(w, fs) ==
    Only([sb \in {fs_ops_read_superblock(w, fs.superblock)} |->
    Only([fs1 \in {[fs EXCEPT !.superblock = sb.sb]} |->
    IF sb.ret # FS_SUCCESS THEN [ret |-> sb.ret, w |-> sb.w, fs |-> fs1]
    ELSE
    Only([ib \in {fs_ops_read_bitmap(sb.w, fs1.inode_bitmap,
                            FS_INODE_BITMAP_BLOCK, FS_BITMAP_BLOCKS)} |->
    Only([fs2 \in {[fs1 EXCEPT !.inode_bitmap = ib.bm]} |->
    IF ib.ret # FS_SUCCESS THEN [ret |-> ib.ret, w |-> ib.w, fs |-> fs2]
    ELSE
    Only([bb \in {fs_ops_read_bitmap(ib.w, fs2.block_bitmap,
                            FS_DATA_BITMAP_BLOCK, FS_BITMAP_BLOCKS)} |->
    Only([fs3 \in {[fs2 EXCEPT !.block_bitmap = bb.bm]} |->
    IF bb.ret # FS_SUCCESS THEN [ret |-> bb.ret, w |-> bb.w, fs |-> fs3]
    ELSE [ret |-> FS_SUCCESS, w |-> bb.w,
          fs |-> [fs3 EXCEPT !.open_files =
                                [fd \in 0..(MAX_OPEN_FILES - 1) |-> ZeroHandle]]]])])])])])])

(***************************************************************************)
(* user_manager.c                                                          *)
(***************************************************************************)
USER_SUCCESS == 0
USER_ERROR_INVALID_PARAM == -1
USER_ERROR_USER_EXISTS == -2
USER_ERROR_USER_NOT_FOUND == -3
USER_ERROR_WRONG_PASSWORD == -4
USER_ERROR_NO_SPACE == -5
USER_ERROR_PERMISSION == -6
USER_ERROR_NOT_LOGGED_IN == -7
USER_MANAGER_ROOT_UID == 0
USER_MANAGER_ROOT_GID == 0
USER_MANAGER_DEFAULT_UID == 1000
USER_MANAGER_DEFAULT_GID == 1000
USER_MANAGER_ANONYMOUS_UID == 65534

\* A password is a sequence of character codes.  The source hashes with
\* hash * 33 + c in 32 bits and stores the "%08x" text; the model keeps the
\* number, reduced modulo HASH_MOD.
HASH_MOD == 16777216
RECURSIVE hash_from(_, _, _)
hash_from(password, i, hash) ==
    IF i > Len(password) THEN hash
    ELSE hash_from(password, i + 1, (hash * 33 + password[i]) % HASH_MOD)
user_manager_hash_password(password) == hash_from(password, 1, 5381)

\* the slot of the first active user with the name, -1 if none
find_user_by_username(users, username) ==
    LET hits == {i \in DOMAIN users : users[i].is_active # 0 /\ users[i].username = username}
    IN  IF hits = {} THEN 0 - 1 ELSE CHOOSE i \in hits : \A j \in hits : i <= j

find_user_by_uid(users, uid) ==
    LET hits == {i \in DOMAIN users : users[i].is_active # 0 /\ users[i].uid = uid}
    IN  IF hits = {} THEN 0 - 1 ELSE CHOOSE i \in hits : \A j \in hits : i <= j

find_free_user_slot(users) ==
    LET hits == {i \in DOMAIN users : users[i].is_active = 0}
    IN  IF hits = {} THEN 0 - 1 ELSE CHOOSE i \in hits : \A j \in hits : i <= j

\* the variant that hands out USER_MANAGER_DEFAULT_UID whoever holds it
get_next_available_uid_first(users) == USER_MANAGER_DEFAULT_UID

\* the first uid from USER_MANAGER_DEFAULT_UID on that no active user has; the
\* table has MAX_USERS slots, so one of the first MAX_USERS + 1 candidates is free
get_next_available_uid(users) ==
    LET cand == {u \in USER_MANAGER_DEFAULT_UID..(USER_MANAGER_DEFAULT_UID + MAX_USERS) :
                    u < USER_MANAGER_ANONYMOUS_UID /\ find_user_by_uid(users, u) < 0}
    IN  IF cand = {} THEN 0 ELSE CHOOSE u \in cand : \A v \in cand : u <= v

user_manager_create_user(fs, username, password, uid, gid) ==
    LET uid1 == IF uid = 0 THEN get_next_available_uid(fs.users) ELSE uid
        gid1 == IF gid = 0 THEN USER_MANAGER_DEFAULT_GID ELSE gid
        slot == find_free_user_slot(fs.users)
        user == [uid |-> uid1, gid |-> gid1, username |-> username,
                 password_hash |-> IF Len(password) > 0
                                   THEN user_manager_hash_password(password)
                                   ELSE EmptyHash,
                 is_active |-> 1]
    IN  IF username = "" THEN [ret |-> USER_ERROR_INVALID_PARAM, fs |-> fs]
        ELSE IF find_user_by_username(fs.users, username) >= 0
        THEN [ret |-> USER_ERROR_USER_EXISTS, fs |-> fs]
        ELSE IF uid = 0 /\ uid1 = 0 THEN [ret |-> USER_ERROR_NO_SPACE, fs |-> fs]
        ELSE IF uid # 0 /\ find_user_by_uid(fs.users, uid) >= 0
        THEN [ret |-> USER_ERROR_USER_EXISTS, fs |-> fs]
        ELSE IF slot < 0 THEN [ret |-> USER_ERROR_NO_SPACE, fs |-> fs]
        ELSE [ret |-> USER_SUCCESS, fs |-> [fs EXCEPT !.users[slot] = user]]

\* "root123" and "" as character codes
RootPassword == <<114, 111, 111, 116, 49, 50, 51>>
NoPassword == <<>>

user_manager_init(fs) ==
    Only([r1 \in {user_manager_create_user(
             [fs EXCEPT !.users = [i \in 0..(MAX_USERS - 1) |-> ZeroUser]],
             "root", RootPassword, USER_MANAGER_ROOT_UID, USER_MANAGER_ROOT_GID)} |->
    IF r1.ret # USER_SUCCESS THEN r1
    ELSE
    Only([r2 \in {user_manager_create_user(r1.fs, "anonymous", NoPassword,
             USER_MANAGER_ANONYMOUS_UID, USER_MANAGER_ANONYMOUS_UID)} |->
    IF r2.ret # USER_SUCCESS THEN r2
    ELSE [ret |-> USER_SUCCESS,
          fs |-> [r2.fs EXCEPT !.current_user_uid = USER_MANAGER_ROOT_UID]]])])

user_manager_login(fs, username, password) ==
    LET slot == find_user_by_username(fs.users, username)
    IN  IF slot < 0 THEN [ret |-> USER_ERROR_USER_NOT_FOUND, fs |-> fs]
        ELSE IF fs.users[slot].is_active = 0
        THEN [ret |-> USER_ERROR_USER_NOT_FOUND, fs |-> fs]
        ELSE IF fs.users[slot].password_hash # user_manager_hash_password(password)
        THEN [ret |-> USER_ERROR_WRONG_PASSWORD, fs |-> fs]
        ELSE [ret |-> USER_SUCCESS,
              fs |-> [fs EXCEPT !.current_user_uid = fs.users[slot].uid]]

user_manager_logout(fs) ==
    IF fs.current_user_uid = USER_MANAGER_ANONYMOUS_UID
    THEN [ret |-> USER_ERROR_NOT_LOGGED_IN, fs |-> fs]
    ELSE [ret |-> USER_SUCCESS,
          fs |-> [fs EXCEPT !.current_user_uid = USER_MANAGER_ANONYMOUS_UID]]

user_manager_get_user_by_uid(fs, uid) ==
    LET slot == find_user_by_uid(fs.users, uid)
    IN  IF slot < 0 THEN [ret |-> USER_ERROR_USER_NOT_FOUND, user |-> ZeroUser]
        ELSE [ret |-> USER_SUCCESS, user |-> fs.users[slot]]

user_manager_get_current_user(fs) ==
    user_manager_get_user_by_uid(fs, fs.current_user_uid)

user_manager_is_root(uid) == uid = USER_MANAGER_ROOT_UID
user_manager_get_current_uid(fs) == fs.current_user_uid
user_manager_get_current_gid(fs) ==
    LET r == user_manager_get_current_user(fs)
    IN  IF r.ret # USER_SUCCESS THEN USER_MANAGER_ANONYMOUS_UID ELSE r.user.gid

\* (a & b) != 0 on 16-bit values
AnyCommonBit(a, b) ==
    \E k \in 0..15 : (a \div Pow2(k)) % 2 = 1 /\ (b \div Pow2(k)) % 2 = 1
ReadBits == {FS_PERM_OWNER_READ, FS_PERM_GROUP_READ, FS_PERM_OTHER_READ}
WriteBits == {FS_PERM_OWNER_WRITE, FS_PERM_GROUP_WRITE, FS_PERM_OTHER_WRITE}
ExecBits == {FS_PERM_OWNER_EXEC, FS_PERM_GROUP_EXEC, FS_PERM_OTHER_EXEC}

\* the variant in which the owner of the file passes whatever the bits are
user_manager_check_permission_detailed_owner_passes(user_uid, user_gid, file_uid, file_gid, file_permissions, required_perm) ==
    \/ user_manager_is_root(user_uid)
    \/ user_uid = file_uid
    \/ LET pick(r, w, x) == IF required_perm \in ReadBits THEN r
                            ELSE IF required_perm \in WriteBits THEN w
                            ELSE IF required_perm \in ExecBits THEN x
                            ELSE required_perm
       IN  AnyCommonBit(file_permissions,
              IF user_gid = file_gid
              THEN pick(FS_PERM_GROUP_READ, FS_PERM_GROUP_WRITE, FS_PERM_GROUP_EXEC)
              ELSE pick(FS_PERM_OTHER_READ, FS_PERM_OTHER_WRITE, FS_PERM_OTHER_EXEC))

user_manager_check_permission_detailed(user_uid, user_gid, file_uid, file_gid, file_permissions, required_perm) ==
    IF user_manager_is_root(user_uid) THEN TRUE
    ELSE LET pick(r, w, x) == IF required_perm \in ReadBits THEN r
                              ELSE IF required_perm \in WriteBits THEN w
                              ELSE IF required_perm \in ExecBits THEN x
                              ELSE required_perm
             actual_perm ==
                 IF user_uid = file_uid
                 THEN pick(FS_PERM_OWNER_READ, FS_PERM_OWNER_WRITE, FS_PERM_OWNER_EXEC)
                 ELSE IF user_gid = file_gid
                 THEN pick(FS_PERM_GROUP_READ, FS_PERM_GROUP_WRITE, FS_PERM_GROUP_EXEC)
                 ELSE pick(FS_PERM_OTHER_READ, FS_PERM_OTHER_WRITE, FS_PERM_OTHER_EXEC)
         IN  AnyCommonBit(file_permissions, actual_perm)

\* fs.h: the owner-class request bit is shifted to the class of the user
fs_check_permission_internal(file_perms, user_uid, user_gid, file_uid, file_gid, required) ==
    IF user_uid = 0 THEN TRUE
    ELSE IF user_uid = file_uid THEN AnyCommonBit(file_perms, required)
    ELSE IF user_gid = file_gid THEN AnyCommonBit(file_perms, required \div 8)
    ELSE AnyCommonBit(file_perms, required \div 64)

\* the variant that grants every request
user_manager_check_permission_lax(fs, inode, required_perm) == TRUE

user_manager_check_permission(fs, inode, required_perm) ==
    Only([cu \in {user_manager_get_current_user(fs)} |->
    IF cu.ret # USER_SUCCESS THEN FALSE
    ELSE user_manager_check_permission_detailed(cu.user.uid, cu.user.gid,
             inode.owner_uid, inode.owner_gid, inode.permissions, required_perm)])

user_manager_chown(w, fs, inode_number, new_uid, new_gid) ==
    IF ~user_manager_is_root(fs.current_user_uid)
    THEN [ret |-> USER_ERROR_PERMISSION, w |-> w]
    ELSE
    Only([rd \in {fs_ops_read_inode(w, fs, inode_number)} |->
    IF rd.ret # FS_SUCCESS THEN [ret |-> USER_ERROR_INVALID_PARAM, w |-> rd.w]
    ELSE
    Only([wr \in {fs_ops_write_inode(rd.w, fs, inode_number,
             [rd.inode EXCEPT !.owner_uid = new_uid, !.owner_gid = new_gid])} |->
    IF wr.ret # FS_SUCCESS THEN [ret |-> USER_ERROR_INVALID_PARAM, w |-> wr.w]
    ELSE [ret |-> USER_SUCCESS, w |-> wr.w]])])

\* the variant that lets every user change the mode
user_manager_chmod_anyone(w, fs, inode_number, new_permissions) ==
    Only([rd \in {fs_ops_read_inode(w, fs, inode_number)} |->
    IF rd.ret # FS_SUCCESS THEN [ret |-> USER_ERROR_INVALID_PARAM, w |-> rd.w]
    ELSE
    Only([wr \in {fs_ops_write_inode(rd.w, fs, inode_number,
                            [rd.inode EXCEPT !.permissions = new_permissions])} |->
    IF wr.ret # FS_SUCCESS THEN [ret |-> USER_ERROR_INVALID_PARAM, w |-> wr.w]
    ELSE [ret |-> USER_SUCCESS, w |-> wr.w]])])

user_manager_chmod(w, fs, inode_number, new_permissions) ==
    Only([rd \in {fs_ops_read_inode(w, fs, inode_number)} |->
    IF rd.ret # FS_SUCCESS THEN [ret |-> USER_ERROR_INVALID_PARAM, w |-> rd.w]
    ELSE IF ~user_manager_is_root(fs.current_user_uid)
            /\ fs.current_user_uid # rd.inode.owner_uid
    THEN [ret |-> USER_ERROR_PERMISSION, w |-> rd.w]
    ELSE
    Only([wr \in {fs_ops_write_inode(rd.w, fs, inode_number,
                            [rd.inode EXCEPT !.permissions = new_permissions])} |->
    IF wr.ret # FS_SUCCESS THEN [ret |-> USER_ERROR_INVALID_PARAM, w |-> wr.w]
    ELSE [ret |-> USER_SUCCESS, w |-> wr.w]])])

(***************************************************************************)
(* fs_ops.c: fs_create, fs_open, fs_close                                  *)
(***************************************************************************)
FsLoaded(fs) == fs.superblock.magic_number = FS_MAGIC_NUMBER

fs_create(w, fs, path) ==
    Only([ld \in {IF FsLoaded(fs) THEN [ret |-> FS_SUCCESS, w |-> w, fs |-> fs]
         ELSE load_filesystem_state(w, fs)} |->
    IF ld.ret # FS_SUCCESS THEN [ret |-> ld.ret, w |-> ld.w, fs |-> ld.fs]
    ELSE
    Only([pp \in {parse_path(path)} |->
    IF pp.ret # FS_SUCCESS THEN [ret |-> pp.ret, w |-> ld.w, fs |-> ld.fs]
    ELSE IF Len(pp.filename) = 0
    THEN [ret |-> FS_ERROR_INVALID_PARAM, w |-> ld.w, fs |-> ld.fs]
    ELSE
    Only([ex \in {find_file_in_directory(ld.w, ld.fs, pp.parent_inode, pp.filename)} |->
    IF ex.ino # 0 THEN [ret |-> FS_ERROR_FILE_EXISTS, w |-> ex.w, fs |-> ld.fs]
    ELSE
    Only([al \in {alloc_bitmap_bit(ld.fs.inode_bitmap)} |->
    Only([fs1 \in {[ld.fs EXCEPT !.inode_bitmap = al.bm]} |->
    IF al.bit = 0 THEN [ret |-> FS_ERROR_NO_SPACE, w |-> ex.w, fs |-> fs1]
    ELSE
    Only([new_inode \in {[ZeroInode EXCEPT
            !.inode_number = al.bit,
            !.file_type = FS_FILE_TYPE_REGULAR,
            !.permissions = FS_NEW_FILE_PERMISSIONS,
            !.owner_uid = user_manager_get_current_uid(fs1),
            !.owner_gid = user_manager_get_current_gid(fs1),
            !.link_count = 1]} |->
    Only([wi \in {fs_ops_write_inode(ex.w, fs1, al.bit, new_inode)} |->
    IF wi.ret # FS_SUCCESS
    THEN [ret |-> wi.ret, w |-> wi.w,
          fs |-> [fs1 EXCEPT !.inode_bitmap = free_bitmap_bit(@, al.bit)]]
    ELSE
    Only([ad \in {add_file_to_directory(wi.w, fs1, pp.parent_inode, pp.filename, al.bit)} |->
    IF ad.ret # FS_SUCCESS
    THEN [ret |-> ad.ret, w |-> ad.w,
          fs |-> [ad.fs EXCEPT !.inode_bitmap = free_bitmap_bit(@, al.bit)]]
    ELSE [ret |-> FS_SUCCESS, w |-> ad.w,
          fs |-> [ad.fs EXCEPT !.superblock.free_inodes =
                                  ad.fs.inode_bitmap.free_count]]])])])])])])])])

fs_open(w, fs, path) ==
    Only([ld \in {IF FsLoaded(fs) THEN [ret |-> FS_SUCCESS, w |-> w, fs |-> fs]
         ELSE load_filesystem_state(w, fs)} |->
    IF ld.ret # FS_SUCCESS THEN [ret |-> ld.ret, w |-> ld.w, fs |-> ld.fs]
    ELSE
    Only([pp \in {parse_path(path)} |->
    IF pp.ret # FS_SUCCESS THEN [ret |-> pp.ret, w |-> ld.w, fs |-> ld.fs]
    ELSE IF Len(pp.filename) = 0
    THEN [ret |-> FS_ERROR_INVALID_PARAM, w |-> ld.w, fs |-> ld.fs]
    ELSE
    Only([ff \in {find_file_in_directory(ld.w, ld.fs, pp.parent_inode, pp.filename)} |->
    IF ff.ino = 0 THEN [ret |-> FS_ERROR_FILE_NOT_FOUND, w |-> ff.w, fs |-> ld.fs]
    ELSE
    Only([rd \in {fs_ops_read_inode(ff.w, ld.fs, ff.ino)} |->
    IF rd.ret # FS_SUCCESS THEN [ret |-> rd.ret, w |-> rd.w, fs |-> ld.fs]
    ELSE IF rd.inode.file_type = FS_FILE_TYPE_DIRECTORY
    THEN [ret |-> FS_ERROR_IS_DIRECTORY, w |-> rd.w, fs |-> ld.fs]
    ELSE IF ~user_manager_check_permission(ld.fs, rd.inode, FS_PERM_OWNER_READ)
    THEN [ret |-> FS_ERROR_PERMISSION, w |-> rd.w, fs |-> ld.fs]
    ELSE
    Only([free \in {{fd \in 0..(MAX_OPEN_FILES - 1) : ld.fs.open_files[fd].reference_count = 0}} |->
    IF free = {} THEN [ret |-> FS_ERROR_TOO_MANY_OPEN, w |-> rd.w, fs |-> ld.fs]
    ELSE
    Only([fd0 \in {CHOOSE fd \in free : \A other \in free : fd <= other} |->
    [ret |-> fd0,
     w |-> fs_ops_write_inode(rd.w, ld.fs, ff.ino, rd.inode).w,
     fs |-> [ld.fs EXCEPT !.open_files[fd0] =
               [inode_number |-> ff.ino, flags |-> 3, file_position |-> 0,
                reference_count |-> 1,
                owner_uid |-> user_manager_get_current_uid(ld.fs)]]]])])])])])])

\* the variant that counts the reference down and leaves the slot as it is
fs_close_keeps_slot(fs, fd) ==
    IF fd < 0 \/ fd >= MAX_OPEN_FILES THEN fs
    ELSE IF fs.open_files[fd].reference_count = 0 THEN fs
    ELSE [fs EXCEPT !.open_files[fd].reference_count = @ - 1]

fs_close(fs, fd) ==
    IF fd < 0 \/ fd >= MAX_OPEN_FILES THEN fs
    ELSE IF fs.open_files[fd].reference_count = 0 THEN fs
    ELSE IF fs.open_files[fd].reference_count - 1 = 0
    THEN [fs EXCEPT !.open_files[fd] = ZeroHandle]
    ELSE [fs EXCEPT !.open_files[fd].reference_count = @ - 1]

(***************************************************************************)
(* file_ops.c                                                              *)
(***************************************************************************)
SEEK_SET == 0
SEEK_CUR == 1
SEEK_END == 2

\* the variant that tests the range only
file_ops_validate_fd_range_only(fs, fd) ==
    IF fd < 0 \/ fd >= MAX_OPEN_FILES THEN FS_ERROR_INVALID_PARAM ELSE FS_SUCCESS

file_ops_validate_fd(fs, fd) ==
    IF fd < 0 \/ fd >= MAX_OPEN_FILES THEN FS_ERROR_INVALID_PARAM
    ELSE IF fs.open_files[fd].reference_count = 0 THEN FS_ERROR_INVALID_PARAM
    ELSE FS_SUCCESS

\* unlike load_filesystem_state, the handle table is left as it is
load_filesystem_state_if_needed(w, fs) ==
    IF FsLoaded(fs) THEN [ret |-> FS_SUCCESS, w |-> w, fs |-> fs]
    ELSE
    Only([sb \in {fs_ops_read_superblock(w, fs.superblock)} |->
    Only([fs1 \in {[fs EXCEPT !.superblock = sb.sb]} |->
    IF sb.ret # FS_SUCCESS THEN [ret |-> sb.ret, w |-> sb.w, fs |-> fs1]
    ELSE
    Only([ib \in {fs_ops_read_bitmap(sb.w, fs1.inode_bitmap,
                            FS_INODE_BITMAP_BLOCK, FS_BITMAP_BLOCKS)} |->
    Only([fs2 \in {[fs1 EXCEPT !.inode_bitmap = ib.bm]} |->
    IF ib.ret # FS_SUCCESS THEN [ret |-> ib.ret, w |-> ib.w, fs |-> fs2]
    ELSE
    Only([bb \in {fs_ops_read_bitmap(ib.w, fs2.block_bitmap,
                            FS_DATA_BITMAP_BLOCK, FS_BITMAP_BLOCKS)} |->
    Only([fs3 \in {[fs2 EXCEPT !.block_bitmap = bb.bm]} |->
    IF bb.ret # FS_SUCCESS THEN [ret |-> bb.ret, w |-> bb.w, fs |-> fs3]
    ELSE [ret |-> FS_SUCCESS, w |-> bb.w, fs |-> fs3]])])])])])])

read_inode_from_disk(w, fs, inode_number) == fs_ops_read_inode(w, fs, inode_number)
\* the variant that reports success and writes nothing
write_inode_to_disk_dropped(w, fs, inode_number, inode) == [ret |-> FS_SUCCESS, w |-> w]
write_inode_to_disk(w, fs, inode_number, inode) ==
    fs_ops_write_inode(w, fs, inode_number, inode)

file_ops_calculate_block_position(file_offset) ==
    [block_index |-> file_offset \div BLOCK_SIZE, block_offset |-> file_offset % BLOCK_SIZE]

\* the variant that takes the first direct block for every index
file_ops_get_data_block_first(inode, block_index) == inode.direct_blocks[0]

file_ops_get_data_block(inode, block_index) ==
    IF block_index < DIRECT_BLOCKS THEN inode.direct_blocks[block_index] ELSE 0

\* the variant that hands out the block and leaves the bitmap as it was
alloc_data_block_from_bitmap_unmarked(fs) ==
    IF fs.block_bitmap.free_count = 0 \/ ~fs.block_bitmap.has_bitmap
    THEN [block |-> 0, fs |-> fs]
    ELSE IF \A i \in 0..(fs.block_bitmap.total_bits - 1) : TestBit(fs.block_bitmap.bitmap, i)
    THEN [block |-> 0, fs |-> fs]
    ELSE [block |-> alloc_bitmap_bit(fs.block_bitmap).bit + fs.superblock.data_blocks_start,
          fs |-> fs]

\* returns the absolute block number, 0 for "none free".  The source does not
\* test the bitmap pointer; a bitmap without memory has free_count > 0 only
\* after the cleanup of a failed format_disk, when no file can be open.
alloc_data_block_from_bitmap(fs) ==
    IF fs.block_bitmap.free_count = 0 \/ ~fs.block_bitmap.has_bitmap
    THEN [block |-> 0, fs |-> fs]
    ELSE IF \A i \in 0..(fs.block_bitmap.total_bits - 1) : TestBit(fs.block_bitmap.bitmap, i)
    THEN [block |-> 0, fs |-> fs]
    ELSE Only([al \in {alloc_bitmap_bit(fs.block_bitmap)} |->
         [block |-> al.bit + fs.superblock.data_blocks_start,
          fs |-> [fs EXCEPT !.block_bitmap = al.bm]]])

\* the variant that allocates nothing
file_ops_allocate_data_block_none(fs, inode, block_index) ==
    [block |-> 0, fs |-> fs, inode |-> inode]

file_ops_allocate_data_block(fs, inode, block_index) ==
    IF block_index >= DIRECT_BLOCKS THEN [block |-> 0, fs |-> fs, inode |-> inode]
    ELSE IF inode.direct_blocks[block_index] # 0
    THEN [block |-> inode.direct_blocks[block_index], fs |-> fs, inode |-> inode]
    ELSE Only([al \in {alloc_data_block_from_bitmap(fs)} |->
         IF al.block > 0
         THEN [block |-> al.block, fs |-> al.fs,
               inode |-> [inode EXCEPT !.direct_blocks[block_index] = al.block]]
         ELSE [block |-> inode.direct_blocks[block_index], fs |-> al.fs,
               inode |-> inode]])

\* the loop of fs_write; data is the sequence of bytes to write, start_offset the
\* cursor at the call, bytes_written the count so far
RECURSIVE write_loop(_, _, _, _, _, _)
write_loop(w, fs, inode, data, start_offset, bytes_written) ==
    IF bytes_written >= Len(data)
    THEN [bytes_written |-> bytes_written, w |-> w, fs |-> fs, inode |-> inode]
    ELSE
    Only([pos \in {file_ops_calculate_block_position(start_offset + bytes_written)} |->
    Only([got \in {file_ops_get_data_block(inode, pos.block_index)} |->
    Only([al \in {IF got = 0 THEN file_ops_allocate_data_block(fs, inode, pos.block_index)
         ELSE [block |-> got, fs |-> fs, inode |-> inode]} |->
    IF al.block = 0
    THEN [bytes_written |-> bytes_written, w |-> w, fs |-> al.fs, inode |-> al.inode]
    ELSE
    Only([rd \in {disk_read_block(w, al.block)} |->
    IF rd.ret # DISK_SUCCESS
    THEN [bytes_written |-> bytes_written, w |-> rd.w, fs |-> al.fs, inode |-> al.inode]
    ELSE
    Only([bytes_to_write \in {Min(BLOCK_SIZE - pos.block_offset, Len(data) - bytes_written)} |->
    Only([wr \in {disk_write_block(rd.w, al.block,
             [i \in 0..(BLOCK_SIZE - 1) |->
                IF i >= pos.block_offset /\ i < pos.block_offset + bytes_to_write
                THEN ByteCell(data[bytes_written + (i - pos.block_offset) + 1])
                ELSE rd.buf[i]])} |->
    IF wr.ret # DISK_SUCCESS
    THEN [bytes_written |-> bytes_written, w |-> wr.w, fs |-> al.fs, inode |-> al.inode]
    ELSE write_loop(wr.w, al.fs, al.inode, data, start_offset,
                    bytes_written + bytes_to_write)])])])])])])

\* int fs_write(int fd, const char* data, int size), with size = Len(data)
fs_write(w, fs, fd, data) ==
    IF Len(data) <= 0 THEN [ret |-> FS_ERROR_INVALID_PARAM, w |-> w, fs |-> fs]
    ELSE IF file_ops_validate_fd(fs, fd) # FS_SUCCESS
    THEN [ret |-> file_ops_validate_fd(fs, fd), w |-> w, fs |-> fs]
    ELSE
    Only([ld \in {load_filesystem_state_if_needed(w, fs)} |->
    IF ld.ret # FS_SUCCESS THEN [ret |-> ld.ret, w |-> ld.w, fs |-> ld.fs]
    ELSE
    Only([handle \in {ld.fs.open_files[fd]} |->
    Only([rd \in {read_inode_from_disk(ld.w, ld.fs, handle.inode_number)} |->
    IF rd.ret # FS_SUCCESS THEN [ret |-> rd.ret, w |-> rd.w, fs |-> ld.fs]
    ELSE IF rd.inode.file_type # FS_FILE_TYPE_REGULAR
    THEN [ret |-> FS_ERROR_INVALID_PARAM, w |-> rd.w, fs |-> ld.fs]
    ELSE IF ~user_manager_check_permission(ld.fs, rd.inode, FS_PERM_OWNER_WRITE)
    THEN [ret |-> FS_ERROR_PERMISSION, w |-> rd.w, fs |-> ld.fs]
    ELSE
    Only([lp \in {write_loop(rd.w, ld.fs, rd.inode, data, handle.file_position, 0)} |->
    IF lp.bytes_written > 0
    THEN
      Only([new_size \in {handle.file_position + lp.bytes_written} |->
      Only([inode1 \in {IF new_size > lp.inode.file_size
           THEN [lp.inode EXCEPT !.file_size = new_size,
                   !.block_count = (new_size + BLOCK_SIZE - 1) \div BLOCK_SIZE]
           ELSE lp.inode} |->
      [ret |-> lp.bytes_written,
       w |-> write_inode_to_disk(lp.w, lp.fs, handle.inode_number, inode1).w,
       fs |-> [lp.fs EXCEPT !.open_files[fd].file_position = @ + lp.bytes_written]]])])
    ELSE [ret |-> 0, w |-> lp.w, fs |-> lp.fs]])])])])

\* the variant that stops at the end of the first block it reads
read_loop_one_block(w, inode, size, start_offset, buffer) ==
    Only([pos \in {file_ops_calculate_block_position(start_offset)} |->
    Only([block_num \in {file_ops_get_data_block(inode, pos.block_index)} |->
    IF block_num = 0 THEN [buffer |-> buffer, w |-> w]
    ELSE
    Only([rd \in {disk_read_block(w, block_num)} |->
    IF rd.ret # DISK_SUCCESS THEN [buffer |-> buffer, w |-> rd.w]
    ELSE [buffer |-> [k \in 1..Min(BLOCK_SIZE - pos.block_offset, size) |->
                        CellAsByte(rd.buf[pos.block_offset + k - 1])],
          w |-> rd.w]])])])

\* the loop of fs_read; size is the count after clamping to the bytes available,
\* buffer the bytes copied so far
RECURSIVE read_loop(_, _, _, _, _)
read_loop(w, inode, size, start_offset, buffer) ==
    IF Len(buffer) >= size THEN [buffer |-> buffer, w |-> w]
    ELSE
    Only([pos \in {file_ops_calculate_block_position(start_offset + Len(buffer))} |->
    Only([block_num \in {file_ops_get_data_block(inode, pos.block_index)} |->
    IF block_num = 0 THEN [buffer |-> buffer, w |-> w]
    ELSE
    Only([rd \in {disk_read_block(w, block_num)} |->
    IF rd.ret # DISK_SUCCESS THEN [buffer |-> buffer, w |-> rd.w]
    ELSE
    Only([bytes_to_read \in {Min(BLOCK_SIZE - pos.block_offset, size - Len(buffer))} |->
    read_loop(rd.w, inode, size, start_offset,
              buffer \o [k \in 1..bytes_to_read |->
                           CellAsByte(rd.buf[pos.block_offset + k - 1])])])])])])

\* int fs_read(int fd, char* buffer, int size); buf is what the call has put
\* into the caller's buffer
fs_read(w, fs, fd, size) ==
    IF size <= 0 THEN [ret |-> FS_ERROR_INVALID_PARAM, w |-> w, fs |-> fs, buf |-> <<>>]
    ELSE IF file_ops_validate_fd(fs, fd) # FS_SUCCESS
    THEN [ret |-> file_ops_validate_fd(fs, fd), w |-> w, fs |-> fs, buf |-> <<>>]
    ELSE
    Only([ld \in {load_filesystem_state_if_needed(w, fs)} |->
    IF ld.ret # FS_SUCCESS THEN [ret |-> ld.ret, w |-> ld.w, fs |-> ld.fs, buf |-> <<>>]
    ELSE
    Only([handle \in {ld.fs.open_files[fd]} |->
    Only([rd \in {read_inode_from_disk(ld.w, ld.fs, handle.inode_number)} |->
    IF rd.ret # FS_SUCCESS THEN [ret |-> rd.ret, w |-> rd.w, fs |-> ld.fs, buf |-> <<>>]
    ELSE IF rd.inode.file_type # FS_FILE_TYPE_REGULAR
    THEN [ret |-> FS_ERROR_INVALID_PARAM, w |-> rd.w, fs |-> ld.fs, buf |-> <<>>]
    ELSE IF ~user_manager_check_permission(ld.fs, rd.inode, FS_PERM_OWNER_READ)
    THEN [ret |-> FS_ERROR_PERMISSION, w |-> rd.w, fs |-> ld.fs, buf |-> <<>>]
    ELSE IF handle.file_position >= rd.inode.file_size
    THEN [ret |-> 0, w |-> rd.w, fs |-> ld.fs, buf |-> <<>>]
    ELSE
    Only([size1 \in {Min(size, rd.inode.file_size - handle.file_position)} |->
    Only([lp \in {read_loop(rd.w, rd.inode, size1, handle.file_position, <<>>)} |->
    IF Len(lp.buffer) > 0
    THEN [ret |-> Len(lp.buffer),
          w |-> write_inode_to_disk(lp.w, ld.fs, handle.inode_number, rd.inode).w,
          fs |-> [ld.fs EXCEPT !.open_files[fd].file_position = @ + Len(lp.buffer)],
          buf |-> lp.buffer]
    ELSE [ret |-> 0, w |-> lp.w, fs |-> ld.fs, buf |-> <<>>]])])])])])

\* the variant with one cursor for all the handles of a file
fs_seek_every_handle(w, fs, fd, offset, whence) ==
    IF file_ops_validate_fd(fs, fd) # FS_SUCCESS
    THEN [ret |-> file_ops_validate_fd(fs, fd), w |-> w, fs |-> fs]
    ELSE
    Only([ld \in {load_filesystem_state_if_needed(w, fs)} |->
    IF ld.ret # FS_SUCCESS THEN [ret |-> ld.ret, w |-> ld.w, fs |-> ld.fs]
    ELSE
    Only([handle \in {ld.fs.open_files[fd]} |->
    Only([rd \in {read_inode_from_disk(ld.w, ld.fs, handle.inode_number)} |->
    IF rd.ret # FS_SUCCESS THEN [ret |-> rd.ret, w |-> rd.w, fs |-> ld.fs]
    ELSE IF whence \notin {SEEK_SET, SEEK_CUR, SEEK_END}
    THEN [ret |-> FS_ERROR_INVALID_PARAM, w |-> rd.w, fs |-> ld.fs]
    ELSE
    Only([new_position \in {IF whence = SEEK_SET THEN offset
         ELSE IF whence = SEEK_CUR THEN handle.file_position + offset
         ELSE rd.inode.file_size + offset} |->
    IF new_position < 0
    THEN [ret |-> FS_ERROR_INVALID_PARAM, w |-> rd.w, fs |-> ld.fs]
    ELSE [ret |-> new_position, w |-> rd.w,
          fs |-> [ld.fs EXCEPT !.open_files =
                    [i \in DOMAIN @ |->
                       IF @[i].reference_count # 0 /\ @[i].inode_number = handle.inode_number
                       THEN [@[i] EXCEPT !.file_position = new_position]
                       ELSE @[i]]]]])])])])

\* the variant that takes every offset from the start of the file
fs_seek_from_start(w, fs, fd, offset, whence) ==
    IF file_ops_validate_fd(fs, fd) # FS_SUCCESS
    THEN [ret |-> file_ops_validate_fd(fs, fd), w |-> w, fs |-> fs]
    ELSE IF offset < 0 THEN [ret |-> FS_ERROR_INVALID_PARAM, w |-> w, fs |-> fs]
    ELSE [ret |-> offset, w |-> w,
          fs |-> [fs EXCEPT !.open_files[fd].file_position = offset]]

\* a negative int offset converts to uint64 and the sum wraps, so the position
\* is the exact sum when it is not negative; (int64_t)new_position < 0 otherwise
fs_seek(w, fs, fd, offset, whence) ==
    IF file_ops_validate_fd(fs, fd) # FS_SUCCESS
    THEN [ret |-> file_ops_validate_fd(fs, fd), w |-> w, fs |-> fs]
    ELSE
    Only([ld \in {load_filesystem_state_if_needed(w, fs)} |->
    IF ld.ret # FS_SUCCESS THEN [ret |-> ld.ret, w |-> ld.w, fs |-> ld.fs]
    ELSE
    Only([handle \in {ld.fs.open_files[fd]} |->
    Only([rd \in {read_inode_from_disk(ld.w, ld.fs, handle.inode_number)} |->
    IF rd.ret # FS_SUCCESS THEN [ret |-> rd.ret, w |-> rd.w, fs |-> ld.fs]
    ELSE IF whence \notin {SEEK_SET, SEEK_CUR, SEEK_END}
    THEN [ret |-> FS_ERROR_INVALID_PARAM, w |-> rd.w, fs |-> ld.fs]
    ELSE
    Only([new_position \in {IF whence = SEEK_SET THEN offset
         ELSE IF whence = SEEK_CUR THEN handle.file_position + offset
         ELSE rd.inode.file_size + offset} |->
    IF new_position < 0
    THEN [ret |-> FS_ERROR_INVALID_PARAM, w |-> rd.w, fs |-> ld.fs]
    ELSE [ret |-> new_position, w |-> rd.w,
          fs |-> [ld.fs EXCEPT !.open_files[fd].file_position = new_position]]])])])])

fs_tell(fs, fd) ==
    IF file_ops_validate_fd(fs, fd) # FS_SUCCESS THEN file_ops_validate_fd(fs, fd)
    ELSE fs.open_files[fd].file_position

fs_size(w, fs, fd) ==
    IF file_ops_validate_fd(fs, fd) # FS_SUCCESS
    THEN [ret |-> file_ops_validate_fd(fs, fd), w |-> w, fs |-> fs]
    ELSE
    Only([ld \in {load_filesystem_state_if_needed(w, fs)} |->
    IF ld.ret # FS_SUCCESS THEN [ret |-> ld.ret, w |-> ld.w, fs |-> ld.fs]
    ELSE
    Only([rd \in {read_inode_from_disk(ld.w, ld.fs, ld.fs.open_files[fd].inode_number)} |->
    IF rd.ret # FS_SUCCESS THEN [ret |-> rd.ret, w |-> rd.w, fs |-> ld.fs]
    ELSE [ret |-> rd.inode.file_size, w |-> rd.w, fs |-> ld.fs]])])

(***************************************************************************)
(* The state at process start, and the calls on the disk simulator.        *)
(***************************************************************************)
\* the largest disk of the model: the metadata area and MaxDataBlocks data blocks
FsDataStart == fs_ops_init_superblock(0).data_blocks_start
MaxTotalBlocks == FsDataStart + MaxDataBlocks
NoData == <<>>
NoCall == [op |-> "none", a |-> <<>>, ret |-> 0, buf |-> NoData]
Call(op, a, ret, buf) == [op |-> op, a |-> a, ret |-> ret, buf |-> buf]
NoRoundTrip == [phase |-> "none"]

Init ==
    /\ host = NoHost
    /\ g_disk_state = ZeroDiskState
    /\ g_fs_state = ZeroFsState
    /\ call = NoCall
    /\ shadow = [b \in 0..MaxTotalBlocks |-> NoData]
    /\ rt = NoRoundTrip

\* what a call leaves behind: its return value and buffer, the world and the
\* file system state
Outcome(ret, w, fs, buf) == [ret |-> ret, w |-> w, fs |-> fs, buf |-> buf]

\* the step of the call op(a) with outcome o
Returns(op, a, o) ==
    \E r \in {o} :
        /\ host' = r.w.host
        /\ g_disk_state' = r.w.disk
        /\ g_fs_state' = r.fs
        /\ call' = Call(op, a, r.ret, r.buf)

\* disk sizes in bytes: none, not a multiple of the block size, one to MaxSmallDisk blocks
SmallDiskSizes == {0, BLOCK_SIZE + 1} \cup {n * BLOCK_SIZE : n \in 1..MaxSmallDisk}
\* the buffers the callers write: a constant fill or a ramp
WriteBuffers == {PatternBlock(v) : v \in 1..MaxByte} \cup {RampBlock(v) : v \in 1..MaxByte}

DiskInit(sizes) ==
    \E disk_size \in sizes :
        /\ Returns("disk_init", <<disk_size>>,
               Only([r \in {disk_init(World(host, g_disk_state), disk_size)} |->
                   Outcome(r.ret, r.w, g_fs_state, NoData)]))
        /\ UNCHANGED shadow
        /\ rt' = NoRoundTrip

DiskWriteBlock(blocks) ==
    \E block_num \in blocks, data \in WriteBuffers :
        /\ Returns("disk_write_block", <<block_num>>,
               Only([r \in {disk_write_block(World(host, g_disk_state), block_num, data)} |->
                   Outcome(r.ret, r.w, g_fs_state, data)]))
        /\ shadow' = IF call'.ret = DISK_SUCCESS
                     THEN [shadow EXCEPT ![block_num] = data] ELSE shadow
        /\ rt' = NoRoundTrip

DiskReadBlock(blocks) ==
    \E block_num \in blocks :
        /\ Returns("disk_read_block", <<block_num>>,
               Only([r \in {disk_read_block(World(host, g_disk_state), block_num)} |->
                   Outcome(r.ret, r.w, g_fs_state,
                           IF r.ret = DISK_SUCCESS THEN r.buf ELSE NoData)]))
        /\ UNCHANGED shadow
        /\ rt' = NoRoundTrip

DiskSync ==
    /\ Returns("disk_sync", <<>>,
           Only([r \in {disk_sync(World(host, g_disk_state))} |->
               Outcome(r.ret, r.w, g_fs_state, NoData)]))
    /\ UNCHANGED shadow
    /\ rt' = NoRoundTrip

DiskClose ==
    /\ Returns("disk_close", <<>>,
           Only([r \in {disk_close(World(host, g_disk_state))} |->
               Outcome(r.ret, r.w, g_fs_state, NoData)]))
    /\ UNCHANGED shadow
    /\ rt' = NoRoundTrip

\* every block the format has written holds the pattern
DiskFormat ==
    \E pattern \in 0..MaxByte :
        /\ Returns("disk_format", <<pattern>>,
               Only([r \in {disk_format(World(host, g_disk_state), pattern)} |->
                   Outcome(r.ret, r.w, g_fs_state, NoData)]))
        /\ shadow' = IF call'.ret = DISK_SUCCESS
                     THEN [b \in DOMAIN shadow |->
                             IF b < g_disk_state.total_blocks
                             THEN PatternBlock(pattern) ELSE shadow[b]]
                     ELSE shadow
        /\ rt' = NoRoundTrip

\* The process ends without disk_close and a new one starts: the globals are
\* zero again, the backing file keeps what write() has put into it.
ProcessRestart ==
    /\ Returns("restart", <<>>,
           Outcome(0, World(host, ZeroDiskState), ZeroFsState, NoData))
    /\ UNCHANGED shadow
    /\ rt' = NoRoundTrip

SmallBlockNumbers == (0 - 1)..MaxSmallDisk

NextDisk ==
    \/ DiskInit(SmallDiskSizes)
    \/ DiskWriteBlock(SmallBlockNumbers)
    \/ DiskReadBlock(SmallBlockNumbers)
    \/ DiskSync
    \/ DiskClose
    \/ DiskFormat
    \/ ProcessRestart

SpecDisk == Init /\ [][NextDisk]_vars

(***************************************************************************)
(* The calls on the file system and on the user manager.                   *)
(***************************************************************************)
\* disks below the metadata area, without a data block, and with 2 and
\* MaxDataBlocks data blocks
FsDiskSizes == {n * BLOCK_SIZE : n \in {FsDataStart - 1, FsDataStart,
                                        FsDataStart + 2, MaxTotalBlocks}}
\* a plain name, an absolute path, a path of two levels, the root, no name
Paths == {<<"a">>, <<"/", "b">>, <<"a", "/", "b">>, <<"/">>, <<>>}
\* the bytes the direct blocks of a file hold
MaxFileBytes == DIRECT_BLOCKS * BLOCK_SIZE
RampBytes(v, n) == [i \in 1..n |-> (v + i - 1) % 256]
AlicePassword == <<97>>

\* main.c, cmd_init: open the disk, format it unless block 0 carries the magic
\* number, initialize the user manager
cmd_init(w, fs, disk_size) ==
    Only([di \in {disk_init(w, disk_size)} |->
    IF di.ret # DISK_SUCCESS THEN [ret |-> 0 - 1, w |-> di.w, fs |-> fs]
    ELSE
    Only([rd \in {disk_read_block(di.w, 0)} |->
    Only([fm \in {IF rd.ret # DISK_SUCCESS THEN format_disk(rd.w, fs)
         ELSE IF CellAsSuperblock(rd.buf[0]).magic_number # FS_MAGIC_NUMBER
         THEN format_disk(rd.w, fs)
         ELSE [w |-> rd.w, fs |-> fs]} |->
    Only([um \in {user_manager_init(fm.fs)} |->
    IF um.ret # USER_SUCCESS THEN [ret |-> 0 - 1, w |-> fm.w, fs |-> um.fs]
    ELSE [ret |-> 0, w |-> fm.w, fs |-> um.fs]])])])])

CmdInit(sizes) ==
    \E disk_size \in sizes :
        /\ Returns("cmd_init", <<disk_size>>,
               Only([r \in {cmd_init(World(host, g_disk_state), g_fs_state, disk_size)} |->
                   Outcome(r.ret, r.w, r.fs, NoData)]))
        /\ UNCHANGED shadow
        /\ rt' = NoRoundTrip

FormatDisk ==
    /\ Returns("format_disk", <<>>,
           Only([r \in {format_disk(World(host, g_disk_state), g_fs_state)} |->
               Outcome(0, r.w, r.fs, NoData)]))
    /\ UNCHANGED shadow
    /\ rt' = NoRoundTrip

\* fs_ops_read_superblock into a superblock of the caller
FsReadSuperblock ==
    /\ Returns("fs_ops_read_superblock", <<>>,
           Only([r \in {fs_ops_read_superblock(World(host, g_disk_state), ZeroSuperblock)} |->
               Outcome(r.ret, r.w, g_fs_state, r.sb)]))
    /\ UNCHANGED shadow
    /\ rt' = NoRoundTrip

FsCreate(paths) ==
    \E path \in paths :
        /\ Returns("fs_create", <<path>>,
               Only([r \in {fs_create(World(host, g_disk_state), g_fs_state, path)} |->
                   Outcome(r.ret, r.w, r.fs, NoData)]))
        /\ UNCHANGED shadow
        /\ rt' = NoRoundTrip

FsOpen(paths) ==
    \E path \in paths :
        /\ Returns("fs_open", <<path>>,
               Only([r \in {fs_open(World(host, g_disk_state), g_fs_state, path)} |->
                   Outcome(r.ret, r.w, r.fs, NoData)]))
        /\ UNCHANGED shadow
        /\ rt' = NoRoundTrip

FsClose(fds) ==
    \E fd \in fds :
        /\ Returns("fs_close", <<fd>>,
               Outcome(0, World(host, g_disk_state), fs_close(g_fs_state, fd), NoData))
        /\ UNCHANGED shadow
        /\ rt' = NoRoundTrip

\* rt remembers a complete write made at cursor 0, until the next call that is
\* not the seek to 0 and the read that follow it; the caller writes when the
\* cursor of the handle is one of cursors
FsWrite(fds, datas, cursors) ==
    \E fd \in fds, data \in datas :
        /\ fd \in DOMAIN g_fs_state.open_files
              => g_fs_state.open_files[fd].file_position \in cursors
        /\ Returns("fs_write", <<fd, Len(data)>>,
               Only([r \in {fs_write(World(host, g_disk_state), g_fs_state, fd, data)} |->
                   Outcome(r.ret, r.w, r.fs, data)]))
        /\ UNCHANGED shadow
        /\ rt' = IF call'.ret = Len(data) /\ fd \in 0..(MAX_OPEN_FILES - 1)
                    /\ g_fs_state.open_files[fd].file_position = 0
                 THEN [phase |-> "written", fd |-> fd, data |-> data]
                 ELSE NoRoundTrip

FsSeek(fds, offsets, whences) ==
    \E fd \in fds, offset \in offsets, whence \in whences :
        /\ Returns("fs_seek", <<fd, offset, whence>>,
            Only([r \in {fs_seek(World(host, g_disk_state), g_fs_state, fd, offset, whence)} |->
                Outcome(r.ret, r.w, r.fs, NoData)]))
        /\ UNCHANGED shadow
        /\ rt' = IF rt.phase = "written" /\ rt.fd = fd /\ offset = 0
                    /\ whence = SEEK_SET /\ call'.ret = 0
                 THEN [rt EXCEPT !.phase = "rewound"]
                 ELSE NoRoundTrip
        /\ call'.ret <= MaxFileBytes + 1

FsRead(fds, sizes) ==
    \E fd \in fds, size \in sizes :
        /\ Returns("fs_read", <<fd, size>>,
               Only([r \in {fs_read(World(host, g_disk_state), g_fs_state, fd, size)} |->
                   Outcome(r.ret, r.w, r.fs, r.buf)]))
        /\ UNCHANGED shadow
        /\ rt' = IF rt.phase = "rewound" /\ rt.fd = fd /\ size = Len(rt.data)
                 THEN [rt EXCEPT !.phase = "read"]
                 ELSE NoRoundTrip

FsTell(fds) ==
    \E fd \in fds :
        /\ Returns("fs_tell", <<fd>>,
               Outcome(fs_tell(g_fs_state, fd), World(host, g_disk_state), g_fs_state, NoData))
        /\ UNCHANGED shadow
        /\ rt' = NoRoundTrip

FsSize(fds) ==
    \E fd \in fds :
        /\ Returns("fs_size", <<fd>>,
               Only([r \in {fs_size(World(host, g_disk_state), g_fs_state, fd)} |->
                   Outcome(r.ret, r.w, r.fs, NoData)]))
        /\ UNCHANGED shadow
        /\ rt' = NoRoundTrip

\* a caller of fs_ops.h persists one of the two bitmaps and reads it back into
\* a bitmap it has initialized with the same number of bits
\* (fs_format_test.c, test_bitmap_verification); buf is the bitmap read
BitmapStart(which) ==
    IF which = "inode" THEN FS_INODE_BITMAP_BLOCK ELSE FS_DATA_BITMAP_BLOCK
BitmapOf(fs, which) == IF which = "inode" THEN fs.inode_bitmap ELSE fs.block_bitmap

BitmapPersistReload ==
    \E which \in {"inode", "block"} :
        /\ Returns("bitmap_persist_reload", <<which>>,
              Only([bm \in {BitmapOf(g_fs_state, which)} |->
              Only([wr \in {fs_ops_write_bitmap(World(host, g_disk_state), bm,
                                BitmapStart(which), FS_BITMAP_BLOCKS)} |->
              IF wr.ret # FS_SUCCESS THEN Outcome(wr.ret, wr.w, g_fs_state, NoData)
              ELSE
              Only([fresh \in {fs_ops_init_bitmap(ZeroBitmap, bm.total_bits)} |->
              Only([rd \in {fs_ops_read_bitmap(wr.w, fresh.bm,
                                BitmapStart(which), FS_BITMAP_BLOCKS)} |->
              Outcome(rd.ret, rd.w, g_fs_state, rd.bm)])])])]))
        /\ UNCHANGED shadow
        /\ rt' = NoRoundTrip

UserManagerInit ==
    /\ Returns("user_manager_init", <<>>,
           Only([r \in {user_manager_init(g_fs_state)} |->
               Outcome(r.ret, World(host, g_disk_state), r.fs, NoData)]))
    /\ UNCHANGED shadow
    /\ rt' = NoRoundTrip

UserCreate(uids, gids) ==
    \E uid \in uids, gid \in gids :
        /\ Returns("user_manager_create_user", <<"alice", uid, gid>>,
               Only([r \in {user_manager_create_user(g_fs_state, "alice", AlicePassword, uid, gid)} |->
                   Outcome(r.ret, World(host, g_disk_state), r.fs, NoData)]))
        /\ UNCHANGED shadow
        /\ rt' = NoRoundTrip

UserCreateNamed(names, uids, gids) ==
    \E username \in names, uid \in uids, gid \in gids :
        /\ Returns("user_manager_create_user", <<username, uid, gid>>,
               Only([r \in {user_manager_create_user(g_fs_state, username, AlicePassword, uid, gid)} |->
                   Outcome(r.ret, World(host, g_disk_state), r.fs, NoData)]))
        /\ UNCHANGED shadow
        /\ rt' = NoRoundTrip

UserLogin(logins) ==
    \E l \in logins :
        /\ Returns("user_manager_login", l,
               Only([r \in {user_manager_login(g_fs_state, l[1], l[2])} |->
                   Outcome(r.ret, World(host, g_disk_state), r.fs, NoData)]))
        /\ UNCHANGED shadow
        /\ rt' = NoRoundTrip

UserLogout ==
    /\ Returns("user_manager_logout", <<>>,
           Only([r \in {user_manager_logout(g_fs_state)} |->
               Outcome(r.ret, World(host, g_disk_state), r.fs, NoData)]))
    /\ UNCHANGED shadow
    /\ rt' = NoRoundTrip

Chown(inos, uids, gids) ==
    \E ino \in inos, uid \in uids, gid \in gids :
        /\ Returns("user_manager_chown", <<ino, uid, gid>>,
               Only([r \in {user_manager_chown(World(host, g_disk_state), g_fs_state, ino, uid, gid)} |->
                   Outcome(r.ret, r.w, g_fs_state, NoData)]))
        /\ UNCHANGED shadow
        /\ rt' = NoRoundTrip

Chmod(inos, modes) ==
    \E ino \in inos, mode \in modes :
        /\ Returns("user_manager_chmod", <<ino, mode>>,
               Only([r \in {user_manager_chmod(World(host, g_disk_state), g_fs_state, ino, mode)} |->
                   Outcome(r.ret, r.w, g_fs_state, NoData)]))
        /\ UNCHANGED shadow
        /\ rt' = NoRoundTrip

\* Formatting: disks of every size, formatted, closed, re-opened, restarted
NextFormat ==
    \/ DiskInit(FsDiskSizes)
    \/ DiskClose
    \/ ProcessRestart
    \/ FormatDisk
    \/ FsReadSuperblock
    \/ FsCreate(Paths)
    \/ FsOpen(Paths)

SpecFormat == Init /\ [][NextFormat]_vars

\* Permissions: one disk with data blocks, set up by cmd_init; the users log
\* in and out, create, open, close, chown, chmod
PermDiskSizes == {MaxTotalBlocks * BLOCK_SIZE}
PermPaths == {<<"a">>}
PermLogins == {<<"root", RootPassword>>, <<"alice", AlicePassword>>,
               <<"anonymous", NoPassword>>}
PermModes == {FS_PERM_OTHER_READ, FS_PERM_GROUP_READ, FS_PERM_OWNER_READ}
FileInodes == {ROOT_INODE_NUM + 1}

NextPerm ==
    \/ CmdInit(PermDiskSizes)
    \/ UserManagerInit
    \/ UserCreate({0}, {0, USER_MANAGER_DEFAULT_GID + 1})
    \/ UserLogin(PermLogins)
    \/ UserLogout
    \/ Chown(FileInodes, {USER_MANAGER_DEFAULT_UID + 1}, {USER_MANAGER_DEFAULT_GID + 1})
    \/ Chmod(FileInodes, PermModes)
    \/ FsCreate(PermPaths)
    \/ FsOpen(PermPaths)
    \/ FsClose(0..(MAX_OPEN_FILES - 1))

SpecPerm == Init /\ [][NextPerm]_vars

\* Reading and writing: a disk with one free data block and the largest disk,
\* one file, opened once or more, written at cursor 0, rewound and read through
\* its first handle by its owner, also after the owner has taken the write
\* bits or the read bits away
RWDiskSizes == {n * BLOCK_SIZE : n \in {FsDataStart + 2, MaxTotalBlocks}}
RWLengths == {1, BLOCK_SIZE + 1, MaxFileBytes, MaxFileBytes + 1}
RWData == {RampBytes(v, n) : v \in 1..MaxByte, n \in RWLengths}
RWModes == {FS_PERM_OWNER_READ, FS_PERM_OWNER_WRITE}

NextRW ==
    \/ CmdInit(RWDiskSizes)
    \/ UserLogin({<<"root", RootPassword>>})
    \/ Chmod(FileInodes, RWModes)
    \/ FsCreate(PermPaths)
    \/ FsOpen(PermPaths)
    \/ FsWrite({0}, RWData, {0})
    \/ FsSeek({0}, {0}, {SEEK_SET})
    \/ FsRead({0}, RWLengths)

SpecRW == Init /\ [][NextRW]_vars

\* Descriptors: one file on the largest disk, opened and closed by root;
\* every call on a handle is made with the descriptors in range and with the
\* two next to the range; the first handle is also moved backwards and
\* forwards from the start, from its cursor and from the end of the file, and
\* with a whence that is none of the three
AnyFds == (0 - 1)..MAX_OPEN_FILES
FdData == {RampBytes(1, 1)}

NextFd ==
    \/ CmdInit(PermDiskSizes)
    \/ UserLogin({<<"root", RootPassword>>})
    \/ FsCreate(PermPaths)
    \/ FsOpen(PermPaths)
    \/ FsClose(AnyFds)
    \/ FsWrite(AnyFds, FdData, {0})
    \/ FsSeek(AnyFds, {1}, {SEEK_SET})
    \/ FsSeek({0}, {0 - 1, 2}, {SEEK_SET, SEEK_CUR, SEEK_END, SEEK_END + 1})
    \/ FsRead(AnyFds, {1})
    \/ FsTell(AnyFds)
    \/ FsSize(AnyFds)

SpecFd == Init /\ [][NextFd]_vars

\* Allocation: a disk whose only data block is the root directory's and a disk
\* with two more; files are created until the inodes or the directory are
\* exhausted, one file is written block by block, the process restarts and
\* loads the file system again, the bitmaps are persisted and read back
AllocDiskSizes == {n * BLOCK_SIZE : n \in {FsDataStart + 1, FsDataStart + 3}}
AllocPaths == {<<"a">>, <<"b">>, <<"c">>}
AllocData == {RampBytes(1, 1), RampBytes(1, BLOCK_SIZE + 1)}

NextAlloc ==
    \/ CmdInit(AllocDiskSizes)
    \/ ProcessRestart
    \/ UserLogin({<<"root", RootPassword>>})
    \/ FsCreate(AllocPaths)
    \/ FsOpen(PermPaths)
    \/ FsWrite({0}, AllocData, {0})
    \/ BitmapPersistReload

SpecAlloc == Init /\ [][NextAlloc]_vars

\* Sparse and short writes: a disk with one free data block and the largest
\* disk, one file opened once or twice by its owner; the handles are moved to
\* the start of the file, to its second block and to the end of the direct
\* range, written there, and read
SparseOffsets == {0, BLOCK_SIZE, MaxFileBytes}
SparseData == {RampBytes(1, 1), RampBytes(2, BLOCK_SIZE + 1)}
SparseFds == 0..1

NextSparse ==
    \/ CmdInit(RWDiskSizes)
    \/ UserLogin({<<"root", RootPassword>>})
    \/ FsCreate(PermPaths)
    \/ FsOpen(PermPaths)
    \/ FsSeek(SparseFds, SparseOffsets, {SEEK_SET})
    \/ FsWrite(SparseFds, SparseData, SparseOffsets)
    \/ FsRead({0}, {1, MaxFileBytes})

SpecSparse == Init /\ [][NextSparse]_vars

\* The root directory: a disk on which the directory cannot grow and one on
\* which it grows to DIRECT_BLOCKS blocks; more names than the directory has
\* slots, and "." and ".."
DirDiskSizes == {n * BLOCK_SIZE : n \in {FsDataStart + 1, FsDataStart + DIRECT_BLOCKS}}
DirNames == {<<"a">>, <<"b">>, <<"c">>, <<"d">>, <<"e">>}
DirPaths == DirNames \cup {DotName, DotDotName}

NextDir ==
    \/ CmdInit(DirDiskSizes)
    \/ FsCreate(DirPaths)

SpecDir == Init /\ [][NextDir]_vars

\* Paths: two names, each with and without the leading separator, and the
\* paths that name nothing or have a second separator; created, opened and
\* closed by root
PathNames == {<<"a">>, <<"/", "a">>, <<"b">>, <<"/", "b">>}
BadPaths == {<<"/">>, <<>>, <<"a", "/", "b">>, <<"/", "a", "/">>, <<"/", "/", "a">>}

NextPath ==
    \/ CmdInit(PermDiskSizes)
    \/ UserLogin({<<"root", RootPassword>>})
    \/ FsCreate(PathNames \cup BadPaths)
    \/ FsOpen(PathNames \cup BadPaths)
    \/ FsClose({0})

SpecPath == Init /\ [][NextPath]_vars

\* Users taking turns: root and a second user log in one after the other; the
\* file of the one is opened, its mode changed, and its first handle written,
\* rewound and read by whoever is logged in
SwitchLogins == {<<"root", RootPassword>>, <<"alice", AlicePassword>>}
SwitchModes == {FS_PERM_OWNER_READ + FS_PERM_OWNER_WRITE,
                FS_PERM_OWNER_READ + FS_PERM_OTHER_READ,
                FS_PERM_OTHER_READ + FS_PERM_OTHER_WRITE}

NextSwitch ==
    \/ CmdInit(PermDiskSizes)
    \/ UserCreate({0}, {USER_MANAGER_DEFAULT_GID + 1})
    \/ UserLogin(SwitchLogins)
    \/ Chmod(FileInodes, SwitchModes)
    \/ FsCreate(PermPaths)
    \/ FsOpen(PermPaths)
    \/ FsWrite({0}, FdData, {0})
    \/ FsSeek({0}, {0}, {SEEK_SET})
    \/ FsRead({0}, {1})

SpecSwitch == Init /\ [][NextSwitch]_vars

\* The inode table: the inode numbers of the first block of the table and the
\* first of the next, from the reserved 0 on, and the last number with the two
\* beyond the table, are written and read, on a formatted disk and after a
\* restart
InodeNumbers == 0..InodesPerBlock
                  \cup (FS_DEFAULT_MAX_INODES - 1)..(FS_DEFAULT_MAX_INODES + 1)
InodeValues == {[ZeroInode EXCEPT !.file_type = FS_FILE_TYPE_REGULAR,
                                  !.permissions = FS_NEW_FILE_PERMISSIONS,
                                  !.link_count = 1,
                                  !.file_size = v] : v \in 1..2}

FsOpsWriteInode(numbers, inodes) ==
    \E inode_number \in numbers, inode \in inodes :
        /\ Returns("fs_ops_write_inode", <<inode_number, inode>>,
               Only([r \in {fs_ops_write_inode(World(host, g_disk_state), g_fs_state,
                                               inode_number, inode)} |->
                   Outcome(r.ret, r.w, g_fs_state, NoData)]))
        /\ UNCHANGED shadow
        /\ rt' = NoRoundTrip

FsOpsReadInode(numbers) ==
    \E inode_number \in numbers :
        /\ Returns("fs_ops_read_inode", <<inode_number>>,
               Only([r \in {fs_ops_read_inode(World(host, g_disk_state), g_fs_state,
                                              inode_number)} |->
                   Outcome(r.ret, r.w, g_fs_state, <<r.inode>>)]))
        /\ UNCHANGED shadow
        /\ rt' = NoRoundTrip

NextInode ==
    \/ CmdInit(PermDiskSizes)
    \/ ProcessRestart
    \/ FsOpsWriteInode(InodeNumbers, InodeValues)
    \/ FsOpsReadInode(InodeNumbers)

SpecInode == Init /\ [][NextInode]_vars

\* Mounting a damaged file: while no session has the backing file open,
\* something outside the program overwrites one field of its header or cuts
\* its last block off; the program then opens it, reads, writes and closes
DamageKinds == {"magic_number", "version", "block_size", "checksum", "total_blocks", "truncate"}
Damage(h, kind) ==
    IF kind = "magic_number" THEN [h EXCEPT !.header.magic_number = DISK_MAGIC_HEADER + 1]
    ELSE IF kind = "version" THEN [h EXCEPT !.header.version = DISK_VERSION + 1]
    ELSE IF kind = "block_size" THEN [h EXCEPT !.header.block_size = BLOCK_SIZE + 1]
    ELSE IF kind = "checksum"
    THEN [h EXCEPT !.header.checksum = (calculate_checksum(h.header) + 1) % DIGEST_MOD]
    ELSE IF kind = "total_blocks"
    THEN [h EXCEPT !.header.total_blocks = Len(h.blocks) + 1]
    ELSE [h EXCEPT !.blocks = SubSeq(@, 1, Len(@) - 1)]

HostDamage(kinds) ==
    \E kind \in kinds :
        /\ host.exists
        /\ ~g_disk_state.is_initialized
        /\ Len(host.blocks) > 0
        /\ Returns("host_damage", <<kind>>,
               Outcome(0, World(Damage(host, kind), g_disk_state), g_fs_state, NoData))
        /\ UNCHANGED shadow
        /\ rt' = NoRoundTrip

NextMount ==
    \/ DiskInit(SmallDiskSizes)
    \/ DiskWriteBlock({0})
    \/ DiskReadBlock({0})
    \/ DiskClose
    \/ ProcessRestart
    \/ HostDamage(DamageKinds)

SpecMount == Init /\ [][NextMount]_vars

\* Sessions: the disk is opened, written in its first block and one past its
\* largest size, read, synced, formatted and closed, the process restarts, and
\* the checksum of the closed file is damaged so that a disk_init fails
NextSession ==
    \/ DiskInit(SmallDiskSizes)
    \/ DiskWriteBlock({0, MaxSmallDisk})
    \/ DiskReadBlock({0})
    \/ DiskSync
    \/ DiskFormat
    \/ DiskClose
    \/ ProcessRestart
    \/ HostDamage({"checksum"})

SpecSession == Init /\ [][NextSession]_vars

\* The user table: accounts made before and after user_manager_init, with
\* names and uids that are free, taken, or left to the manager (uid 0)
UserNames == {"alice", "bob", "root", ""}
UserUids == {0, USER_MANAGER_DEFAULT_UID, USER_MANAGER_DEFAULT_UID + 1}
UserLogins == {<<"root", RootPassword>>, <<"alice", AlicePassword>>}
NextUsers ==
    \/ UserManagerInit
    \/ UserCreateNamed(UserNames, UserUids, {0})
    \/ UserLogin(UserLogins)
    \/ UserLogout
    \/ ProcessRestart
SpecUsers == Init /\ [][NextUsers]_vars

\* Owners and modes: the first file made by uid 0 or by an account, chown and
\* chmod of its inode and of a number past the table by each of them, logins
\* that succeed and that fail
OwnerInodes == {ROOT_INODE_NUM + 1, FS_DEFAULT_MAX_INODES}
OwnerLogins == {<<"root", RootPassword>>, <<"alice", AlicePassword>>,
                <<"alice", NoPassword>>, <<"bob", NoPassword>>}
NextOwner ==
    \/ CmdInit(PermDiskSizes)
    \/ UserCreate({0}, {0})
    \/ UserLogin(OwnerLogins)
    \/ Chown(OwnerInodes, {USER_MANAGER_DEFAULT_UID + 1}, {USER_MANAGER_DEFAULT_GID})
    \/ Chmod(OwnerInodes, {FS_PERM_OWNER_READ, FS_PERM_OTHER_READ})
    \/ FsCreate(PermPaths)
SpecOwner == Init /\ [][NextOwner]_vars

\* The layout as a function: the inode numbers of the build and the two sizes
\* of time_t are drawn first, the block of the inode is computed from them
LayoutInodes == 0..MAX_INODES
InitLayout ==
    /\ host = NoHost
    /\ g_disk_state = ZeroDiskState
    /\ g_fs_state = ZeroFsState
    /\ call \in {Call("arguments", <<n, t>>, 0, NoData) : n \in LayoutInodes, t \in TimeTSizes}
    /\ shadow = [b \in 0..MaxTotalBlocks |-> NoData]
    /\ rt = NoRoundTrip
InodeBlockOf ==
    /\ call.op = "arguments"
    /\ call' = Call("inode_block_num", call.a,
                    InodeBlockNum(FS_INODE_TABLE_START, call.a[1],
                                  SizeofInode(call.a[2]), DISK_BLOCK_SIZE), NoData)
    /\ UNCHANGED <<host, g_disk_state, g_fs_state, shadow, rt>>
NextLayout == InodeBlockOf
SpecLayout == InitLayout /\ [][NextLayout]_vars

\* Blocks of the directory and of the files: two names, so that the directory
\* grows, files of two blocks written through the first handle, and a second
\* format
BlocksPaths == {<<"a">>, <<"b">>}
BlocksData == {RampBytes(1, BLOCK_SIZE + 1)}
NextBlocks ==
    \/ CmdInit(PermDiskSizes)
    \/ UserLogin({<<"root", RootPassword>>})
    \/ FormatDisk
    \/ FsCreate(BlocksPaths)
    \/ FsOpen(BlocksPaths)
    \/ FsSeek({0}, {0}, {SEEK_SET})
    \/ FsWrite({0}, BlocksData, {0})
    \/ FsRead({0}, {1})
    \/ FsClose({0})
SpecBlocks == Init /\ [][NextBlocks]_vars

\* The permission check as a function: every 9-bit mode and each of the nine
\* request bits, for users that are root, the owner, in the group of the file
\* or neither.
CheckUids == {USER_MANAGER_ROOT_UID, USER_MANAGER_DEFAULT_UID, USER_MANAGER_DEFAULT_UID + 1}
CheckGids == {USER_MANAGER_DEFAULT_GID, USER_MANAGER_DEFAULT_GID + 1}
CheckModes == 0..511
CheckRequests == ReadBits \cup WriteBits \cup ExecBits

\* the caller has its six arguments at hand
InitCheck ==
    /\ host = NoHost
    /\ g_disk_state = ZeroDiskState
    /\ g_fs_state = ZeroFsState
    /\ call \in {Call("arguments",
                      <<user_uid, user_gid, file_uid, file_gid, file_permissions, required_perm>>,
                      0, NoData) :
                    user_uid \in CheckUids, user_gid \in CheckGids,
                    file_uid \in CheckUids, file_gid \in CheckGids,
                    file_permissions \in CheckModes, required_perm \in CheckRequests}
    /\ shadow = [b \in 0..MaxTotalBlocks |-> NoData]
    /\ rt = NoRoundTrip

CheckPermissionDetailed ==
    /\ call.op = "arguments"
    /\ Returns("user_manager_check_permission_detailed", call.a,
           Outcome(IF user_manager_check_permission_detailed(call.a[1], call.a[2],
                          call.a[3], call.a[4], call.a[5], call.a[6])
                   THEN 1 ELSE 0,
                   World(host, g_disk_state), g_fs_state, NoData))
    /\ UNCHANGED shadow
    /\ rt' = NoRoundTrip

NextCheck == CheckPermissionDetailed

SpecCheck == InitCheck /\ [][NextCheck]_vars

\* C3: while the disk is initialized, every block in range that has been written
\* reads back, with DISK_SUCCESS, as the data of the last successful write to it,
\* whatever calls (sync, close, re-open, restart) came in between; and a read
\* just made has returned exactly that data.
C3_WriteReadRoundTrip ==
    /\ g_disk_state.is_initialized =>
         \A b \in 0..(g_disk_state.total_blocks - 1) :
            shadow[b] # NoData =>
               LET r == disk_read_block(World(host, g_disk_state), b)
               IN  r.ret = DISK_SUCCESS /\ r.buf = shadow[b]
    /\ (call.op = "disk_read_block" /\ call.ret = DISK_SUCCESS
          /\ shadow[call.a[1]] # NoData) => call.buf = shadow[call.a[1]]

\* a block written in an earlier session is read back after close and re-open,
\* while another block has been written since
C3_Witness ==
    /\ call.op = "disk_read_block" /\ call.ret = DISK_SUCCESS
    /\ call.buf # ZeroBlock /\ call.buf = shadow[call.a[1]]
    /\ g_disk_state.stats.total_writes = 0
    /\ \E b \in 0..(g_disk_state.total_blocks - 1) :
          b # call.a[1] /\ shadow[b] # NoData /\ shadow[b] # call.buf

\* C4: on an initialized disk, disk_read_block and disk_write_block of a block
\* number below 0 or at or above total_blocks return DISK_ERROR_BLOCK_RANGE and
\* change neither a block of the backing file nor the session state (dirty flag,
\* statistics).
C4_OutOfRangeRejected ==
    [][(/\ call'.op \in {"disk_read_block", "disk_write_block"}
        /\ g_disk_state.is_initialized
        /\ (call'.a[1] < 0 \/ call'.a[1] >= g_disk_state.total_blocks))
       => (/\ call'.ret = DISK_ERROR_BLOCK_RANGE
           /\ host' = host
           /\ g_disk_state' = g_disk_state)]_vars

C4_Witness ==
    /\ call.op = "disk_write_block" /\ call.ret = DISK_ERROR_BLOCK_RANGE
    /\ g_disk_state.is_initialized /\ call.a[1] = g_disk_state.total_blocks
    /\ g_disk_state.is_dirty /\ g_disk_state.stats.total_writes = 1

(***************************************************************************)
(* Formatting (SpecFormat).                                                *)
(***************************************************************************)
\* a disk image as disk_init creates it: initialized, every block zero
FreshDisk ==
    /\ g_disk_state.is_initialized
    /\ \A i \in 1..Len(host.blocks) : host.blocks[i] = ZeroBlock
\* the disk has room for the metadata area and at least one data block
HoldsRootBlock == g_disk_state.total_blocks > FsDataStart
\* the number of clear bits of a bitmap in memory
FreeBits(bm) == Cardinality({i \in 0..(bm.total_bits - 1) : ~TestBit(bm.bitmap, i)})
\* the block of the backing file as disk_read_block returns it
BlockOnDisk(h, d, b) == disk_read_block(World(h, d), b).buf

\* what C5 says of the state (h, d, fs) that format_disk leaves
SuperblockCounts(h, d, fs) ==
    \E r \in {fs_ops_read_superblock(World(h, d), ZeroSuperblock)} :
        /\ r.ret = FS_SUCCESS
        /\ r.sb.free_inodes = r.sb.total_inodes - 1
        /\ r.sb.free_blocks = r.sb.total_blocks - r.sb.data_blocks_start - 1
        /\ fs.inode_bitmap.has_bitmap /\ fs.block_bitmap.has_bitmap
        /\ r.sb.free_inodes = fs.inode_bitmap.free_count
        /\ r.sb.free_blocks = fs.block_bitmap.free_count
        /\ r.sb.free_inodes = FreeBits(fs.inode_bitmap)
        /\ r.sb.free_blocks = FreeBits(fs.block_bitmap)

RootDirectory(h, d, fs) ==
    \E ri \in {fs_ops_read_inode(World(h, d), fs, ROOT_INODE_NUM)} :
        /\ ri.ret = FS_SUCCESS
        /\ ri.inode.inode_number = ROOT_INODE_NUM
        /\ ri.inode.file_type = FS_FILE_TYPE_DIRECTORY
        /\ ri.inode.block_count = 1
        /\ ri.inode.direct_blocks[0] = fs.superblock.data_blocks_start
        /\ \A k \in 1..(DIRECT_BLOCKS - 1) : ri.inode.direct_blocks[k] = 0
        /\ \E blk \in {BlockOnDisk(h, d, ri.inode.direct_blocks[0])} :
              /\ \E i, j \in 0..(EntriesPerBlock - 1) :
                    /\ i # j
                    /\ CellAsDirEntry(blk[i]).filename = <<".">>
                    /\ CellAsDirEntry(blk[j]).filename = <<".", ".">>
                    /\ \A k \in 0..(EntriesPerBlock - 1) :
                          IF k \in {i, j}
                          THEN /\ CellAsDirEntry(blk[k]).is_valid = 1
                               /\ CellAsDirEntry(blk[k]).inode_number = ROOT_INODE_NUM
                          ELSE CellAsDirEntry(blk[k]).is_valid = 0
        /\ fs.inode_bitmap.has_bitmap /\ fs.block_bitmap.has_bitmap
        /\ TestBit(fs.inode_bitmap.bitmap, ROOT_INODE_NUM)
        /\ TestBit(fs.block_bitmap.bitmap, 0)
        /\ \E ib \in {fs_ops_read_bitmap(World(h, d), fs.inode_bitmap,
                                         FS_INODE_BITMAP_BLOCK, FS_BITMAP_BLOCKS)} :
              ib.ret = FS_SUCCESS /\ TestBit(ib.bm.bitmap, ROOT_INODE_NUM)
        /\ \E bb \in {fs_ops_read_bitmap(World(h, d), fs.block_bitmap,
                                         FS_DATA_BITMAP_BLOCK, FS_BITMAP_BLOCKS)} :
              bb.ret = FS_SUCCESS /\ TestBit(bb.bm.bitmap, 0)

CanCreate(h, d, fs, path) ==
    \E ld \in {IF FsLoaded(fs) THEN [ret |-> FS_SUCCESS, w |-> World(h, d), fs |-> fs]
               ELSE load_filesystem_state(World(h, d), fs)} :
        /\ ld.ret = FS_SUCCESS
        /\ \E pp \in {parse_path(path)} :
              /\ pp.ret = FS_SUCCESS
              /\ Len(pp.filename) > 0
              /\ pp.parent_inode = ROOT_INODE_NUM
              /\ find_file_in_directory(ld.w, ld.fs, pp.parent_inode, pp.filename).ino = 0
        /\ ld.fs.inode_bitmap.has_bitmap
        /\ ld.fs.inode_bitmap.free_count > 0
        /\ \E i \in 1..(ld.fs.inode_bitmap.total_bits - 1) :
              ~TestBit(ld.fs.inode_bitmap.bitmap, i)
        /\ \E ri \in {fs_ops_read_inode(ld.w, ld.fs, ROOT_INODE_NUM)} :
              /\ ri.ret = FS_SUCCESS
              /\ ri.inode.file_type = FS_FILE_TYPE_DIRECTORY
              /\ ri.inode.block_count > 0
              /\ \E k \in 0..(EntriesPerBlock - 1) :
                    CellAsDirEntry(BlockOnDisk(h, d, ri.inode.direct_blocks[0])[k]).is_valid = 0

\* C2 as stated: on a formatted disk, fs_create of a valid single-level name
\* that the root directory does not have returns FS_SUCCESS whenever a free
\* inode and a free directory slot exist
C2_AsStated ==
    [][(/\ call'.op = "fs_create"
        /\ CanCreate(host, g_disk_state, g_fs_state, call'.a[1]))
       => call'.ret = FS_SUCCESS]_vars

(***************************************************************************)
(* Permissions (SpecPerm)                                                  *)
(***************************************************************************)
\* the file a path names in a state, found the way fs_open finds it
NoFile(fs) == [found |-> FALSE, ino |-> 0, inode |-> ZeroInode, fs |-> fs]
FileOf(h, d, fs, path) ==
    Only([ld \in {IF FsLoaded(fs) THEN [ret |-> FS_SUCCESS, w |-> World(h, d), fs |-> fs]
         ELSE load_filesystem_state(World(h, d), fs)} |->
    IF ld.ret # FS_SUCCESS THEN NoFile(fs)
    ELSE
    Only([pp \in {parse_path(path)} |->
    IF pp.ret # FS_SUCCESS \/ Len(pp.filename) = 0 THEN NoFile(fs)
    ELSE
    Only([ff \in {find_file_in_directory(ld.w, ld.fs, pp.parent_inode, pp.filename)} |->
    IF ff.ino = 0 THEN NoFile(fs)
    ELSE
    Only([rd \in {fs_ops_read_inode(ff.w, ld.fs, ff.ino)} |->
    IF rd.ret # FS_SUCCESS THEN NoFile(fs)
    ELSE [found |-> TRUE, ino |-> ff.ino, inode |-> rd.inode, fs |-> ld.fs]])])])])

BitSet(permissions, bit) == (permissions \div bit) % 2 = 1
HasAccount(fs) == user_manager_get_current_user(fs).ret = USER_SUCCESS
\* the bit of the triple that applies to the current user, for the access
\* whose owner bit is owner_bit: the owner's when the uid is the file's, else
\* the group's when the user has an account in the file's group, else the
\* others'
ApplicableBit(fs, inode, owner_bit) ==
    IF fs.current_user_uid = inode.owner_uid THEN owner_bit
    ELSE IF HasAccount(fs)
            /\ user_manager_get_current_user(fs).user.gid = inode.owner_gid
    THEN owner_bit \div 8
    ELSE owner_bit \div 64
ApplicableReadBit(fs, inode) == ApplicableBit(fs, inode, FS_PERM_OWNER_READ)

RegularFile(f) == f.found /\ f.inode.file_type # FS_FILE_TYPE_DIRECTORY

\* C7: when the current user is not uid 0 and the read bit of the triple that
\* applies to them (owner, else group, else other) is clear on a regular file,
\* fs_open of that file returns FS_ERROR_PERMISSION and the handle table is
\* left as it was
C7_ReadBitClearDenied ==
    [][call'.op = "fs_open" =>
       \A f \in {FileOf(host, g_disk_state, g_fs_state, call'.a[1])} :
          (/\ RegularFile(f)
           /\ g_fs_state.current_user_uid # USER_MANAGER_ROOT_UID
           /\ ~BitSet(f.inode.permissions, ApplicableReadBit(g_fs_state, f.inode)))
          => /\ call'.ret = FS_ERROR_PERMISSION
             /\ g_fs_state'.open_files = g_fs_state.open_files]_vars

\* a user with an account, who does not own the file, was refused although the
\* owner's read bit is set and a handle slot was free
C7_Witness ==
    /\ call.op = "fs_open"
    /\ call.ret = FS_ERROR_PERMISSION
    /\ HasAccount(g_fs_state)
    /\ g_fs_state.current_user_uid # USER_MANAGER_ROOT_UID
    /\ \E fd \in 0..(MAX_OPEN_FILES - 1) : g_fs_state.open_files[fd].reference_count = 0
    /\ \E f \in {FileOf(host, g_disk_state, g_fs_state, call.a[1])} :
          /\ f.found
          /\ f.inode.owner_uid # g_fs_state.current_user_uid
          /\ BitSet(f.inode.permissions, FS_PERM_OWNER_READ)
          /\ ~BitSet(f.inode.permissions, ApplicableReadBit(g_fs_state, f.inode))

OwnerWithAccount(fs, inode) ==
    /\ fs.current_user_uid = inode.owner_uid
    /\ fs.current_user_uid # USER_MANAGER_ROOT_UID
    /\ HasAccount(fs)

\* C8: for the owner of a regular file, when the owner has an account and is
\* not uid 0, fs_open is refused with FS_ERROR_PERMISSION exactly when the
\* owner read bit of the stored permissions is clear
C8_OwnerReadBitDecides ==
    [][call'.op = "fs_open" =>
       \A f \in {FileOf(host, g_disk_state, g_fs_state, call'.a[1])} :
          (RegularFile(f) /\ OwnerWithAccount(g_fs_state, f.inode))
          => (call'.ret = FS_ERROR_PERMISSION
                <=> ~BitSet(f.inode.permissions, FS_PERM_OWNER_READ))]_vars

\* the owner was refused on a file whose group and other read bits are set
C8_Witness ==
    /\ call.op = "fs_open"
    /\ call.ret = FS_ERROR_PERMISSION
    /\ \E f \in {FileOf(host, g_disk_state, g_fs_state, call.a[1])} :
          /\ f.found
          /\ OwnerWithAccount(g_fs_state, f.inode)
          /\ ~BitSet(f.inode.permissions, FS_PERM_OWNER_READ)
          /\ \/ BitSet(f.inode.permissions, FS_PERM_GROUP_READ)
             \/ BitSet(f.inode.permissions, FS_PERM_OTHER_READ)

\* C8 as stated, for owners other than uid 0: the owner is never refused
C8_AsStated ==
    [][call'.op = "fs_open" =>
       \A f \in {FileOf(host, g_disk_state, g_fs_state, call'.a[1])} :
          (RegularFile(f) /\ OwnerWithAccount(g_fs_state, f.inode))
          => call'.ret # FS_ERROR_PERMISSION]_vars

\* C9 as stated: while the current uid is 0, fs_open, fs_read and fs_write
\* never return FS_ERROR_PERMISSION
C9_AsStated ==
    [][(/\ call'.op \in {"fs_open", "fs_read", "fs_write"}
        /\ g_fs_state.current_user_uid = USER_MANAGER_ROOT_UID)
       => call'.ret # FS_ERROR_PERMISSION]_vars

UserManagerInitialized(fs) ==
    \E i \in DOMAIN fs.users :
        fs.users[i].is_active # 0 /\ fs.users[i].username = "root"

\* C10 as stated: after user_manager_init, a successful
\* user_manager_login("root", "root123") leaves the current uid at 0
C10_AsStated ==
    [][(/\ call'.op = "user_manager_login"
        /\ call'.a = <<"root", RootPassword>>
        /\ call'.ret = USER_SUCCESS
        /\ UserManagerInitialized(g_fs_state))
       => g_fs_state'.current_user_uid = USER_MANAGER_ROOT_UID]_vars

(***************************************************************************)
(* Reading and writing (SpecRW)                                            *)
(***************************************************************************)
\* the inode behind the handle fd, as fs_write and fs_read read it
HandleInode(h, d, fs, fd) ==
    read_inode_from_disk(World(h, d), fs, fs.open_files[fd].inode_number)

\* fd is an open handle on a regular file
OpenRegular(h, d, fs, fd) ==
    /\ file_ops_validate_fd(fs, fd) = FS_SUCCESS
    /\ FsLoaded(fs)
    /\ HandleInode(h, d, fs, fd).ret = FS_SUCCESS
    /\ HandleInode(h, d, fs, fd).inode.file_type = FS_FILE_TYPE_REGULAR

\* the current user is not uid 0, has an account, and the bit that applies to
\* them for the access is set
Admitted(fs, inode, owner_bit) ==
    /\ fs.current_user_uid # USER_MANAGER_ROOT_UID
    /\ HasAccount(fs)
    /\ BitSet(inode.permissions, ApplicableBit(fs, inode, owner_bit))

\* the block bitmap has a free block for every block of the first n bytes that
\* the file does not have yet
EnoughBlocks(fs, inode, n) ==
    \E missing \in {{i \in 0..((n - 1) \div BLOCK_SIZE) :
                       file_ops_get_data_block(inode, i) = 0}} :
        \/ missing = {}
        \/ /\ fs.block_bitmap.has_bitmap
           /\ fs.block_bitmap.free_count >= Cardinality(missing)
           /\ FreeBits(fs.block_bitmap) >= Cardinality(missing)

\* the call is fs_write of a's bytes through an open handle on a regular file
\* whose cursor is 0
WriteAtStart ==
    /\ call'.op = "fs_write"
    /\ OpenRegular(host, g_disk_state, g_fs_state, call'.a[1])
    /\ g_fs_state.open_files[call'.a[1]].file_position = 0
    /\ call'.a[2] <= DIRECT_BLOCKS * BLOCK_SIZE

ReadBack ==
    /\ rt.phase = "rewound"
    /\ call'.op = "fs_read"
    /\ call'.a = <<rt.fd, Len(rt.data)>>

\* C1: through an open handle on a regular file whose cursor is 0, fs_write of
\* N bytes, N no more than the direct blocks hold, returns N when the current
\* user is admitted for writing and the block bitmap has the free blocks the
\* file still needs; fs_seek(fd, 0, SEEK_SET) then returns 0; and fs_read of N
\* bytes then returns N and exactly the bytes written when the current user is
\* admitted for reading
C1_WriteSeekRead ==
    [][/\ WriteAtStart =>
          \A ino \in {HandleInode(host, g_disk_state, g_fs_state, call'.a[1]).inode} :
             (/\ Admitted(g_fs_state, ino, FS_PERM_OWNER_WRITE)
              /\ EnoughBlocks(g_fs_state, ino, call'.a[2]))
             => /\ call'.ret = call'.a[2]
                /\ rt'.phase = "written"
       /\ (/\ rt.phase = "written"
           /\ call'.op = "fs_seek"
           /\ call'.a = <<rt.fd, 0, SEEK_SET>>)
          => /\ call'.ret = 0
             /\ rt'.phase = "rewound"
       /\ ReadBack =>
          \A ino \in {HandleInode(host, g_disk_state, g_fs_state, rt.fd).inode} :
             Admitted(g_fs_state, ino, FS_PERM_OWNER_READ)
             => /\ call'.ret = Len(rt.data)
                /\ call'.buf = rt.data]_vars

\* bytes that cross the block boundary have been written, rewound and read back
\* over older, different contents of the file
C1_Witness ==
    /\ rt.phase = "read"
    /\ call.op = "fs_read"
    /\ call.ret = Len(rt.data)
    /\ call.buf = rt.data
    /\ Len(rt.data) > BLOCK_SIZE
    /\ rt.data[1] # 1
    /\ HandleInode(host, g_disk_state, g_fs_state, rt.fd).inode.file_size > Len(rt.data)

\* C1 as stated, for the users the permission check admits: every fs_write of
\* N bytes within the direct-block limit at cursor 0 returns N, and the fs_read
\* after the seek returns N and the bytes
C1_AsStated ==
    [][/\ WriteAtStart =>
          \A ino \in {HandleInode(host, g_disk_state, g_fs_state, call'.a[1]).inode} :
             (/\ Admitted(g_fs_state, ino, FS_PERM_OWNER_WRITE)
              /\ Admitted(g_fs_state, ino, FS_PERM_OWNER_READ))
             => call'.ret = call'.a[2]
       /\ ReadBack =>
          \A ino \in {HandleInode(host, g_disk_state, g_fs_state, rt.fd).inode} :
             Admitted(g_fs_state, ino, FS_PERM_OWNER_READ)
             => /\ call'.ret = Len(rt.data)
                /\ call'.buf = rt.data]_vars

(***************************************************************************)
(* Descriptors (SpecFd)                                                    *)
(***************************************************************************)
\* the descriptor is out of range or its slot is not open
BadFd(fs, fd) ==
    \/ fd \notin 0..(MAX_OPEN_FILES - 1)
    \/ fs.open_files[fd].reference_count = 0

HandleOps == {"fs_read", "fs_write", "fs_seek", "fs_tell", "fs_size"}

\* C11: fs_read, fs_write, fs_seek, fs_tell and fs_size on a descriptor out of
\* [0, MAX_OPEN_FILES) or on a slot with reference count 0 return
\* FS_ERROR_INVALID_PARAM, and fs_close on such a descriptor does nothing; the
\* handle table, the bitmaps and the whole disk (inodes, data blocks) are as
\* they were before the call.
C11_BadDescriptor ==
    [][(call'.op \in HandleOps \cup {"fs_close"} /\ BadFd(g_fs_state, call'.a[1]))
        => /\ call'.op \in HandleOps => call'.ret = FS_ERROR_INVALID_PARAM
           /\ g_fs_state' = g_fs_state
           /\ host' = host
           /\ g_disk_state' = g_disk_state]_vars

\* a read has been refused on a slot that is in range and closed, while a file
\* is open on another slot
C11_Witness ==
    /\ call.op = "fs_read"
    /\ call.ret = FS_ERROR_INVALID_PARAM
    /\ call.a[1] \in 0..(MAX_OPEN_FILES - 1)
    /\ g_fs_state.open_files[call.a[1]].reference_count = 0
    /\ \E fd \in 0..(MAX_OPEN_FILES - 1) : g_fs_state.open_files[fd].reference_count > 0

(***************************************************************************)
(* Allocation (SpecAlloc)                                                  *)
(***************************************************************************)
\* the bits of a bitmap that are set
SetBits(bm) == {i \in 0..(bm.total_bits - 1) : TestBit(bm.bitmap, i)}
Bitmaps(fs) == {fs.inode_bitmap, fs.block_bitmap}

\* C12 as stated: a call of fs_create that reports a failure has consumed no
\* bit of the inode bitmap.
C12_AsStated ==
    [][(call'.op = "fs_create" /\ call'.ret # FS_SUCCESS
        /\ g_fs_state.inode_bitmap.has_bitmap /\ g_fs_state'.inode_bitmap.has_bitmap)
        => /\ SetBits(g_fs_state'.inode_bitmap) = SetBits(g_fs_state.inode_bitmap)
           /\ g_fs_state'.inode_bitmap.free_count = g_fs_state.inode_bitmap.free_count]_vars

CyclicFirstFree(bm, start) ==
    LET steps == {i \in 0..(bm.total_bits - 1) :
                    ~TestBit(bm.bitmap, (start + i) % bm.total_bits)}
    IN  (start + (CHOOSE i \in steps : \A j \in steps : i <= j)) % bm.total_bits

HasFreeBit(bm) == bm.has_bitmap /\ bm.free_count > 0 /\ FreeBits(bm) > 0

C15_BitmapRoundTrip ==
    [][(call'.op = "bitmap_persist_reload"
        /\ BitmapOf(g_fs_state, call'.a[1]).has_bitmap
        /\ g_disk_state.is_initialized)
        => /\ call'.ret = FS_SUCCESS
           /\ call'.buf.total_bits = BitmapOf(g_fs_state, call'.a[1]).total_bits
           /\ SetBits(call'.buf) = SetBits(BitmapOf(g_fs_state, call'.a[1]))
           /\ call'.buf.free_count = BitmapOf(g_fs_state, call'.a[1]).free_count]_vars

\* the inode bitmap with three or more bits allocated has been read back
C15_Witness ==
    /\ call.op = "bitmap_persist_reload"
    /\ call.a[1] = "inode"
    /\ call.ret = FS_SUCCESS
    /\ call.buf # NoData
    /\ Cardinality(SetBits(call.buf)) >= 3

\* C16 as stated: after fs_create and fs_write, the superblock in memory
\* carries the free counts of the two bitmaps.
C16_AsStated ==
    [][(call'.op \in {"fs_create", "fs_write"}
        /\ g_fs_state'.inode_bitmap.has_bitmap /\ g_fs_state'.block_bitmap.has_bitmap)
        => /\ g_fs_state'.superblock.free_inodes = g_fs_state'.inode_bitmap.free_count
           /\ g_fs_state'.superblock.free_blocks = g_fs_state'.block_bitmap.free_count]_vars

(***************************************************************************)
(* Sparse and short writes (SpecSparse)                                    *)
(***************************************************************************)
\* the block indices of the bytes [from, to) of a file that have no block
Unmapped(inode, from, to) ==
    {i \in (from \div BLOCK_SIZE)..((to - 1) \div BLOCK_SIZE) :
        file_ops_get_data_block(inode, i) = 0}

\* C17 as stated: a read by an admitted user whose range inside file_size
\* meets an unmapped block index returns FS_ERROR_IO.
C17_AsStated ==
    [][(call'.op = "fs_read" /\ OpenRegular(host, g_disk_state, g_fs_state, call'.a[1]))
        => \A ino \in {HandleInode(host, g_disk_state, g_fs_state, call'.a[1]).inode} :
           \A pos \in {g_fs_state.open_files[call'.a[1]].file_position} :
              (/\ Admitted(g_fs_state, ino, FS_PERM_OWNER_READ)
               /\ pos < ino.file_size
               /\ Unmapped(ino, pos, Min(pos + call'.a[2], ino.file_size)) # {})
              => call'.ret = FS_ERROR_IO]_vars

\* C18 as stated: the persisted inode of every regular file has block_count
\* equal to the number of its non-zero direct blocks.
C18_AsStated ==
    \A n \in FileInodes :
    \A r \in {fs_ops_read_inode(World(host, g_disk_state), g_fs_state, n)} :
        (/\ FsLoaded(g_fs_state)
         /\ r.ret = FS_SUCCESS
         /\ r.inode.file_type = FS_FILE_TYPE_REGULAR)
        => r.inode.block_count
             = Cardinality({i \in 0..(DIRECT_BLOCKS - 1) : r.inode.direct_blocks[i] # 0})

\* file_size of the file behind an open handle
SizeOfHandle(h, d, fs, fd) == HandleInode(h, d, fs, fd).inode.file_size

\* C19: through any open handle on a regular file, a write that has written
\* k > 0 bytes at cursor c leaves file_size at the larger of the size before
\* and c + k, so that file_size stays the largest end of a write (0 for a file
\* just created); a write that writes nothing, a read and a seek leave
\* file_size as it was.
C19_FileSizeIsLargestEnd ==
    [][(call'.op \in {"fs_write", "fs_read", "fs_seek"}
        /\ OpenRegular(host, g_disk_state, g_fs_state, call'.a[1]))
        => \A old \in {SizeOfHandle(host, g_disk_state, g_fs_state, call'.a[1])} :
           \A c \in {g_fs_state.open_files[call'.a[1]].file_position} :
              SizeOfHandle(host', g_disk_state', g_fs_state', call'.a[1])
                = IF call'.op = "fs_write" /\ call'.ret > 0
                  THEN Max(old, c + call'.ret) ELSE old]_vars

\* the second handle has written inside the file: its cursor after the write
\* is below the size another write has reached
C19_Witness ==
    /\ call.op = "fs_write"
    /\ call.a[1] = 1
    /\ call.ret > 0
    /\ OpenRegular(host, g_disk_state, g_fs_state, 1)
    /\ g_fs_state.open_files[1].file_position
         < SizeOfHandle(host, g_disk_state, g_fs_state, 1)

\* the bytes of n that fs_write can place from cursor c on: it stops at the
\* first block index that is beyond the direct range, or unmapped when the
\* free blocks are used up
RECURSIVE WritableFrom(_, _, _, _, _)
WritableFrom(inode, free, c, n, done) ==
    IF done >= n THEN done
    ELSE IF (c + done) \div BLOCK_SIZE >= DIRECT_BLOCKS THEN done
    ELSE IF inode.direct_blocks[(c + done) \div BLOCK_SIZE] # 0
    THEN WritableFrom(inode, free, c, n,
                      done + Min(BLOCK_SIZE - ((c + done) % BLOCK_SIZE), n - done))
    ELSE IF free = 0 THEN done
    ELSE WritableFrom(inode, free - 1, c, n,
                      done + Min(BLOCK_SIZE - ((c + done) % BLOCK_SIZE), n - done))

FreeBlocks(fs) == IF fs.block_bitmap.has_bitmap THEN FreeBits(fs.block_bitmap) ELSE 0

\* the call is fs_write by an admitted user through an open handle on a
\* regular file, and a block it needs cannot be obtained after k bytes
ShortWrite(k) ==
    /\ call'.op = "fs_write"
    /\ OpenRegular(host, g_disk_state, g_fs_state, call'.a[1])
    /\ Admitted(g_fs_state, HandleInode(host, g_disk_state, g_fs_state, call'.a[1]).inode,
                FS_PERM_OWNER_WRITE)
    /\ k = WritableFrom(HandleInode(host, g_disk_state, g_fs_state, call'.a[1]).inode,
                        FreeBlocks(g_fs_state),
                        g_fs_state.open_files[call'.a[1]].file_position, call'.a[2], 0)
    /\ k < call'.a[2]

\* after the call, fs_seek to c and fs_read of k bytes through fd return the
\* first k bytes of the data of the call
ReadsBack(fd, c, k) ==
    \A sk \in {fs_seek(World(host', g_disk_state'), g_fs_state', fd, c, SEEK_SET)} :
    \A rd \in {fs_read(sk.w, sk.fs, fd, k)} :
        /\ sk.ret = c
        /\ rd.ret = k
        /\ rd.buf = SubSeq(call'.buf, 1, k)

\* C20: when fs_write cannot obtain a needed block after k >= 0 bytes, it
\* returns k and the cursor advances by k; for k > 0 file_size becomes the
\* larger of the old size and old cursor + k and a read of the range returns
\* the k bytes; for k = 0 file_size is as it was.
C20_ShortWriteReturnsCount ==
    [][\A k \in 0..(MaxFileBytes + 1) : ShortWrite(k) =>
          \A old \in {SizeOfHandle(host, g_disk_state, g_fs_state, call'.a[1])} :
          \A c \in {g_fs_state.open_files[call'.a[1]].file_position} :
             /\ call'.ret = k
             /\ g_fs_state'.open_files[call'.a[1]].file_position = c + k
             /\ SizeOfHandle(host', g_disk_state', g_fs_state', call'.a[1])
                  = IF k > 0 THEN Max(old, c + k) ELSE old
             /\ k > 0 => ReadsBack(call'.a[1], c, k)]_vars

\* a write across a block boundary has stopped at the boundary
C20_Witness ==
    /\ call.op = "fs_write"
    /\ call.ret > 0
    /\ call.ret < call.a[2]
    /\ g_fs_state.open_files[call.a[1]].file_position % BLOCK_SIZE = 0
    /\ FreeBlocks(g_fs_state) = 0

\* C20 as stated: also for k = 0, file_size becomes the larger of the old
\* size and the old cursor + k.
C20_AsStated ==
    [][\A k \in 0..(MaxFileBytes + 1) : ShortWrite(k) =>
          \A old \in {SizeOfHandle(host, g_disk_state, g_fs_state, call'.a[1])} :
          \A c \in {g_fs_state.open_files[call'.a[1]].file_position} :
             /\ call'.ret = k
             /\ SizeOfHandle(host', g_disk_state', g_fs_state', call'.a[1])
                  = Max(old, c + k)]_vars

(***************************************************************************)
(* Reading (SpecRW)                                                        *)
(***************************************************************************)
\* what fs_read does through an open handle on a regular file, with cursor pos
\* and inode ino before the call
ReadOutcome(pos, ino) ==
    IF pos >= ino.file_size
    THEN /\ call'.ret = 0
         /\ g_fs_state' = g_fs_state
         /\ host' = host
    ELSE Unmapped(ino, pos, Min(pos + call'.a[2], ino.file_size)) = {}
         => /\ call'.ret = Min(call'.a[2], ino.file_size - pos)
            /\ Len(call'.buf) = call'.ret
            /\ g_fs_state'.open_files[call'.a[1]].file_position = pos + call'.ret
            /\ HandleInode(host', g_disk_state', g_fs_state', call'.a[1]).inode = ino
            /\ g_fs_state'.inode_bitmap = g_fs_state.inode_bitmap
            /\ g_fs_state'.block_bitmap = g_fs_state.block_bitmap

\* C21: for a user the permission check admits for reading, fs_read with the
\* cursor at or past file_size returns 0 and changes neither the handle table
\* nor the disk; otherwise, when all blocks in range are mapped, it returns
\* min(size, file_size - cursor) bytes and advances the cursor by that
\* amount, and the inode (file_size, block pointers) and the bitmaps are as
\* before.
C21_ReadCount ==
    [][(call'.op = "fs_read" /\ OpenRegular(host, g_disk_state, g_fs_state, call'.a[1]))
        => \A ino \in {HandleInode(host, g_disk_state, g_fs_state, call'.a[1]).inode} :
              Admitted(g_fs_state, ino, FS_PERM_OWNER_READ)
              => ReadOutcome(g_fs_state.open_files[call'.a[1]].file_position, ino)]_vars

\* a read that started inside the file has been cut at the end of the file
C21_Witness ==
    /\ call.op = "fs_read"
    /\ call.ret > 0
    /\ call.ret < call.a[2]
    /\ OpenRegular(host, g_disk_state, g_fs_state, call.a[1])
    /\ g_fs_state.open_files[call.a[1]].file_position
         = SizeOfHandle(host, g_disk_state, g_fs_state, call.a[1])
    /\ g_fs_state.open_files[call.a[1]].file_position > call.ret

\* C21 as stated: whoever the current user is
C21_AsStated ==
    [][(call'.op = "fs_read" /\ OpenRegular(host, g_disk_state, g_fs_state, call'.a[1]))
        => ReadOutcome(g_fs_state.open_files[call'.a[1]].file_position,
                       HandleInode(host, g_disk_state, g_fs_state, call'.a[1]).inode)]_vars

(***************************************************************************)
(* Seeking (SpecFd)                                                        *)
(***************************************************************************)
\* the position a seek asks for, from cursor pos in a file of file_size bytes
SeekTarget(pos, file_size, offset, whence) ==
    IF whence = SEEK_SET THEN offset
    ELSE IF whence = SEEK_CUR THEN pos + offset
    ELSE file_size + offset

\* C22: fs_seek on an open handle sets the cursor to offset, cursor + offset
\* or file_size + offset and returns it; when that position is negative or
\* whence is none of the three modes it returns FS_ERROR_INVALID_PARAM and the
\* cursor stays; a position beyond file_size is accepted; in no case does the
\* disk (file_size, blocks) or anything but the cursor change.  The cursor of
\* every handle is >= 0 in every reachable state.
C22_SeekSetsCursor ==
    /\ [](\A fd \in 0..(MAX_OPEN_FILES - 1) : g_fs_state.open_files[fd].file_position >= 0)
    /\ [][(call'.op = "fs_seek" /\ OpenRegular(host, g_disk_state, g_fs_state, call'.a[1]))
          => \A target \in {SeekTarget(g_fs_state.open_files[call'.a[1]].file_position,
                                SizeOfHandle(host, g_disk_state, g_fs_state, call'.a[1]),
                                call'.a[2], call'.a[3])} :
             /\ host' = host
             /\ IF call'.a[3] \notin {SEEK_SET, SEEK_CUR, SEEK_END} \/ target < 0
                THEN /\ call'.ret = FS_ERROR_INVALID_PARAM
                     /\ g_fs_state' = g_fs_state
                ELSE /\ call'.ret = target
                     /\ g_fs_state' = [g_fs_state EXCEPT
                            !.open_files[call'.a[1]].file_position = target]]_vars

\* a seek from the end of a file that has bytes has put the cursor beyond them
C22_Witness ==
    /\ call.op = "fs_seek"
    /\ call.a[3] = SEEK_END
    /\ OpenRegular(host, g_disk_state, g_fs_state, call.a[1])
    /\ SizeOfHandle(host, g_disk_state, g_fs_state, call.a[1]) > 0
    /\ call.ret > SizeOfHandle(host, g_disk_state, g_fs_state, call.a[1])
    /\ g_fs_state.open_files[call.a[1]].file_position = call.ret

(***************************************************************************)
(* The permission check as a function (SpecCheck)                          *)
(***************************************************************************)
\* the bit of a 9-bit mode for a kind of access (4 read, 2 write, 1 execute)
\* in the triple of a class (64 owner, 8 group, 1 others)
ModeBit(mode, class, kind) == (((mode \div class) % 8) \div kind) % 2 = 1
KindOf(required_perm) ==
    IF required_perm \in ReadBits THEN 4
    ELSE IF required_perm \in WriteBits THEN 2 ELSE 1

\* C26: for every user uid and gid, file owner uid and gid, 9-bit mode and
\* requested read, write or execute permission,
\* user_manager_check_permission_detailed returns true iff the uid is 0, or
\* else the requested bit is set in the owner triple when the uid is the
\* file's, else in the group triple when the gid is the file's, else in the
\* others' triple; the call changes nothing, and for the request bits of the
\* owner class fs_check_permission_internal gives the same answer.
C26_DetailedCheck ==
    [][call'.op = "user_manager_check_permission_detailed"
        => /\ (call'.ret = 1) <=>
                  \/ call'.a[1] = 0
                  \/ /\ call'.a[1] # 0
                     /\ ModeBit(call'.a[5],
                                IF call'.a[1] = call'.a[3] THEN 64
                                ELSE IF call'.a[2] = call'.a[4] THEN 8 ELSE 1,
                                KindOf(call'.a[6]))
           /\ call'.ret \in {0, 1}
           /\ call'.a[6] \in {FS_PERM_OWNER_READ, FS_PERM_OWNER_WRITE, FS_PERM_OWNER_EXEC}
                 => (call'.ret = 1) <=>
                       fs_check_permission_internal(call'.a[5], call'.a[1], call'.a[2],
                                                    call'.a[3], call'.a[4], call'.a[6])
           /\ host' = host
           /\ g_disk_state' = g_disk_state
           /\ g_fs_state' = g_fs_state]_vars

\* a user of the file's group who is not the owner has been refused the write
\* that the owner triple and the others' triple both allow
C26_Witness ==
    /\ call.op = "user_manager_check_permission_detailed"
    /\ call.a[1] # 0
    /\ call.a[1] # call.a[3]
    /\ call.a[2] = call.a[4]
    /\ call.a[6] = FS_PERM_OWNER_WRITE
    /\ call.a[5] = FS_PERM_OWNER_WRITE + FS_PERM_OTHER_WRITE
    /\ call.ret = 0

(***************************************************************************)
(* The root directory (SpecDir)                                            *)
(***************************************************************************)
RootInode(h, d, fs) == fs_ops_read_inode(World(h, d), fs, ROOT_INODE_NUM).inode
\* the slots of the blocks the root directory has, as <<block index, entry>>
RootSlots(h, d, fs) ==
    {<<k, i>> : k \in {j \in 0..(DIRECT_BLOCKS - 1) : RootInode(h, d, fs).direct_blocks[j] # 0},
                i \in 0..(EntriesPerBlock - 1)}
RootEntry(h, d, fs, s) ==
    CellAsDirEntry(BlockOnDisk(h, d, RootInode(h, d, fs).direct_blocks[s[1]])[s[2]])
ValidSlots(h, d, fs) == {s \in RootSlots(h, d, fs) : RootEntry(h, d, fs, s).is_valid # 0}
HasEntry(h, d, fs, name) ==
    \E s \in ValidSlots(h, d, fs) : RootEntry(h, d, fs, s).filename = name
\* the name a path gives: the path without its leading separator
NameOf(path) == IF Len(path) > 0 /\ path[1] = "/" THEN Tail(path) ELSE path
GoodPath(path) == Len(NameOf(path)) > 0 /\ ~HasSlash(NameOf(path))

\* C23: in every reachable state no two valid entries of the root directory
\* have the same filename; fs_create of a name that has a valid entry, "."
\* and ".." included, returns FS_ERROR_FILE_EXISTS and changes no block of
\* the disk (directory, inode table) and no bitmap.
C23_OneEntryPerName ==
    /\ [](FsLoaded(g_fs_state) =>
            \A s, t \in ValidSlots(host, g_disk_state, g_fs_state) :
                s # t => RootEntry(host, g_disk_state, g_fs_state, s).filename
                           # RootEntry(host, g_disk_state, g_fs_state, t).filename)
    /\ [][(/\ call'.op = "fs_create"
           /\ FsLoaded(g_fs_state)
           /\ GoodPath(call'.a[1])
           /\ HasEntry(host, g_disk_state, g_fs_state, NameOf(call'.a[1])))
          => /\ call'.ret = FS_ERROR_FILE_EXISTS
             /\ host' = host
             /\ g_fs_state' = g_fs_state]_vars

\* ".." has been refused while the directory has a file in a block it has grown
C23_Witness ==
    /\ call.op = "fs_create"
    /\ call.a[1] = DotDotName
    /\ call.ret = FS_ERROR_FILE_EXISTS
    /\ \E s \in ValidSlots(host, g_disk_state, g_fs_state) : s[1] > 0

\* every slot of the blocks the directory has is valid, and the directory has
\* all its direct blocks or the block bitmap has no free block
DirFull(h, d, fs) ==
    /\ ValidSlots(h, d, fs) = RootSlots(h, d, fs)
    /\ \/ \A k \in 0..(DIRECT_BLOCKS - 1) : RootInode(h, d, fs).direct_blocks[k] # 0
       \/ ~HasFreeBit(fs.block_bitmap)
AllSlotsValid(h, d, fs) ==
    /\ ValidSlots(h, d, fs) = RootSlots(h, d, fs)
    /\ \A k \in 0..(DIRECT_BLOCKS - 1) : RootInode(h, d, fs).direct_blocks[k] # 0

\* C24: when every entry slot of the root directory is valid and the
\* directory has all its DIRECT_BLOCKS blocks, or cannot get the block it
\* needs next, fs_create of a new name returns FS_ERROR_NO_SPACE, the
\* directory has the entries it had, and the inode bitmap has the bits and the
\* free_count it had before the call.
C24_DirectoryFull ==
    [][(/\ call'.op = "fs_create"
        /\ FsLoaded(g_fs_state)
        /\ GoodPath(call'.a[1])
        /\ ~HasEntry(host, g_disk_state, g_fs_state, NameOf(call'.a[1]))
        /\ DirFull(host, g_disk_state, g_fs_state))
       => /\ call'.ret = FS_ERROR_NO_SPACE
          /\ RootSlots(host', g_disk_state', g_fs_state') = RootSlots(host, g_disk_state, g_fs_state)
          /\ \A s \in RootSlots(host, g_disk_state, g_fs_state) :
                RootEntry(host', g_disk_state', g_fs_state', s)
                   = RootEntry(host, g_disk_state, g_fs_state, s)
          /\ SetBits(g_fs_state'.inode_bitmap) = SetBits(g_fs_state.inode_bitmap)
          /\ g_fs_state'.inode_bitmap.free_count = g_fs_state.inode_bitmap.free_count]_vars

\* a new name has been refused by a directory whose DIRECT_BLOCKS blocks are
\* all valid entries, while the inode bitmap had a free inode: the cursor of
\* the bitmap is on the bit that was taken and given back
C24_Witness ==
    /\ call.op = "fs_create"
    /\ call.ret = FS_ERROR_NO_SPACE
    /\ GoodPath(call.a[1])
    /\ ~HasEntry(host, g_disk_state, g_fs_state, NameOf(call.a[1]))
    /\ AllSlotsValid(host, g_disk_state, g_fs_state)
    /\ HasFreeBit(g_fs_state.inode_bitmap)
    /\ g_fs_state.inode_bitmap.last_allocated > ROOT_INODE_NUM
    /\ ~TestBit(g_fs_state.inode_bitmap.bitmap, g_fs_state.inode_bitmap.last_allocated)

OwnerBitOf(op) == IF op = "fs_read" THEN FS_PERM_OWNER_READ ELSE FS_PERM_OWNER_WRITE

\* C27: fs_write and fs_read on an open handle of a regular file check the
\* user who is current at the call, whoever opened the handle: when the write
\* (read) bit of the triple that applies to that user is clear the call
\* returns FS_ERROR_PERMISSION and the disk (contents, file_size, block
\* pointers), the bitmaps and the handle with its cursor are as before; when
\* that user has an account and the bit is set the call is not refused.
C27_UserOfTheCall ==
    [][(/\ call'.op \in {"fs_read", "fs_write"}
        /\ OpenRegular(host, g_disk_state, g_fs_state, call'.a[1]))
       => \A ino \in {HandleInode(host, g_disk_state, g_fs_state, call'.a[1]).inode} :
             /\ ~BitSet(ino.permissions,
                        ApplicableBit(g_fs_state, ino, OwnerBitOf(call'.op)))
                  => /\ call'.ret = FS_ERROR_PERMISSION
                     /\ host' = host
                     /\ g_fs_state' = g_fs_state
             /\ Admitted(g_fs_state, ino, OwnerBitOf(call'.op))
                  => call'.ret # FS_ERROR_PERMISSION]_vars

\* a write has been refused through a handle that another user opened, the
\* owner of the file, who has the write bit
C27_Witness ==
    /\ call.op = "fs_write"
    /\ call.ret = FS_ERROR_PERMISSION
    /\ OpenRegular(host, g_disk_state, g_fs_state, call.a[1])
    /\ g_fs_state.open_files[call.a[1]].owner_uid # g_fs_state.current_user_uid
    /\ \E ino \in {HandleInode(host, g_disk_state, g_fs_state, call.a[1]).inode} :
          /\ ino.owner_uid = g_fs_state.open_files[call.a[1]].owner_uid
          /\ BitSet(ino.permissions, FS_PERM_OWNER_WRITE)
          /\ HasAccount(g_fs_state)

(***************************************************************************)
(* Handle slots (SpecFd)                                                   *)
(***************************************************************************)
FreeSlots(fs) == {fd \in 0..(MAX_OPEN_FILES - 1) : fs.open_files[fd].reference_count = 0}

InodeRecord(h, d, fs, n) ==
    [ret |-> fs_ops_read_inode(World(h, d), fs, n).ret,
     inode |-> fs_ops_read_inode(World(h, d), fs, n).inode]

\* C29: fs_ops_read_inode and fs_ops_write_inode return
\* FS_ERROR_INVALID_PARAM for inode number 0 and for every number >=
\* total_inodes, and the disk and its counters are as before; for every other
\* number n, on an initialized disk both return FS_SUCCESS, the inode x that
\* write(n, x) has written is what read(n) returns in the state after it, and
\* the record of every other inode number is what it was; a read changes no
\* block.
C29_InodeTable ==
    [][call'.op \in {"fs_ops_read_inode", "fs_ops_write_inode"}
        => IF call'.a[1] = 0 \/ call'.a[1] >= g_fs_state.superblock.total_inodes
           THEN /\ call'.ret = FS_ERROR_INVALID_PARAM
                /\ host' = host
                /\ g_disk_state' = g_disk_state
                /\ g_fs_state' = g_fs_state
           ELSE /\ g_disk_state.is_initialized => call'.ret = FS_SUCCESS
                /\ call'.op = "fs_ops_read_inode" => host' = host
                /\ (call'.op = "fs_ops_read_inode" /\ call'.ret = FS_SUCCESS)
                      => call'.buf = <<InodeRecord(host, g_disk_state, g_fs_state,
                                                  call'.a[1]).inode>>
                /\ (call'.op = "fs_ops_write_inode" /\ call'.ret = FS_SUCCESS)
                      => /\ InodeRecord(host', g_disk_state', g_fs_state', call'.a[1])
                               = [ret |-> FS_SUCCESS, inode |-> call'.a[2]]
                         /\ \A m \in 1..(g_fs_state.superblock.total_inodes - 1) :
                               m # call'.a[1]
                                 => InodeRecord(host', g_disk_state', g_fs_state', m)
                                      = InodeRecord(host, g_disk_state, g_fs_state, m)]_vars

\* an inode has been written beside the root inode, in the block of the table
\* they share, and the root inode is still the directory
C29_Witness ==
    /\ call.op = "fs_ops_write_inode"
    /\ call.ret = FS_SUCCESS
    /\ call.a[1] # ROOT_INODE_NUM
    /\ call.a[1] \div InodesPerBlock = ROOT_INODE_NUM \div InodesPerBlock
    /\ InodeRecord(host, g_disk_state, g_fs_state, call.a[1]).inode = call.a[2]
    /\ InodeRecord(host, g_disk_state, g_fs_state, ROOT_INODE_NUM).inode.file_type
          = FS_FILE_TYPE_DIRECTORY

(***************************************************************************)
(* Mounting a damaged file (SpecMount)                                     *)
(***************************************************************************)
\* the header of the backing file does not validate, or the file is shorter
\* than its header says
Damaged(h) ==
    \/ h.header.magic_number # DISK_MAGIC_HEADER
    \/ h.header.version # DISK_VERSION
    \/ h.header.block_size # BLOCK_SIZE
    \/ h.header.checksum # calculate_checksum(h.header)
    \/ Len(h.blocks) < h.header.total_blocks

\* C30: disk_init, called with a block-aligned positive size while no session
\* is open, on an existing backing file whose header has a wrong magic
\* number, version, block size or checksum, or whose file is shorter than the
\* geometry of the header, returns DISK_ERROR_CORRUPTED, leaves the session
\* uninitialized, so that a block read or write in the state after it returns
\* DISK_ERROR_NOT_INIT, and the backing file is as before; on a file that is
\* not damaged it succeeds.
C30_DamagedFile ==
    /\ [][(/\ call'.op = "disk_init"
           /\ call'.a[1] > 0 /\ call'.a[1] % BLOCK_SIZE = 0
           /\ ~g_disk_state.is_initialized
           /\ host.exists)
          => IF Damaged(host)
             THEN /\ call'.ret = DISK_ERROR_CORRUPTED
                  /\ ~g_disk_state'.is_initialized
                  /\ host' = host
                  /\ \A b \in 0..MaxSmallDisk :
                        /\ disk_read_block(World(host', g_disk_state'), b).ret
                              = DISK_ERROR_NOT_INIT
                        /\ \A data \in WriteBuffers :
                              disk_write_block(World(host', g_disk_state'), b, data)
                                 = [ret |-> DISK_ERROR_NOT_INIT,
                                    w |-> World(host', g_disk_state')]
             ELSE call'.ret = DISK_SUCCESS /\ g_disk_state'.is_initialized]_vars
    /\ [][(call'.op \in {"disk_read_block", "disk_write_block"}
           /\ ~g_disk_state.is_initialized)
          => /\ call'.ret = DISK_ERROR_NOT_INIT
             /\ host' = host]_vars

\* disk_init has refused a file with data blocks whose header has the right
\* magic number and a checksum that does not match; no session is open
C30_Witness ==
    /\ call.op = "disk_init"
    /\ call.ret = DISK_ERROR_CORRUPTED
    /\ host.exists
    /\ Len(host.blocks) > 0
    /\ host.header.magic_number = DISK_MAGIC_HEADER
    /\ host.header.checksum # calculate_checksum(host.header)
    /\ ~g_disk_state.is_initialized

(***************************************************************************)
(* The session of the disk (SpecSession)                                   *)
(***************************************************************************)
BlockOps == {"disk_read_block", "disk_write_block", "disk_sync", "disk_format"}

\* C31: while no session is initialized (before disk_init, after disk_close,
\* after a disk_init that failed) disk_read_block, disk_write_block,
\* disk_sync, disk_format and disk_close return DISK_ERROR_NOT_INIT and change
\* nothing, so one of them succeeds only in a session; a session begins only
\* with a disk_init that returns DISK_SUCCESS and ends only with a disk_close
\* that does (or with the process); disk_init with a positive block-aligned
\* size on an initialized session returns DISK_ERROR_ALREADY_INIT and leaves
\* the session (geometry, dirty flag) and the backing file as they are.
C31_Session ==
    /\ [][(call'.op \in BlockOps \cup {"disk_close"} /\ ~g_disk_state.is_initialized)
          => /\ call'.ret = DISK_ERROR_NOT_INIT
             /\ host' = host
             /\ g_disk_state' = g_disk_state]_vars
    /\ [][(call'.op \in BlockOps /\ call'.ret = DISK_SUCCESS)
          => g_disk_state.is_initialized /\ g_disk_state'.is_initialized]_vars
    /\ [][(~g_disk_state.is_initialized /\ g_disk_state'.is_initialized)
          => call'.op = "disk_init" /\ call'.ret = DISK_SUCCESS]_vars
    /\ [][(g_disk_state.is_initialized /\ ~g_disk_state'.is_initialized)
          => \/ call'.op = "disk_close" /\ call'.ret = DISK_SUCCESS
             \/ call'.op = "restart"]_vars
    /\ [][(/\ call'.op = "disk_init"
           /\ call'.a[1] > 0 /\ call'.a[1] % BLOCK_SIZE = 0
           /\ g_disk_state.is_initialized)
          => /\ call'.ret = DISK_ERROR_ALREADY_INIT
             /\ host' = host
             /\ g_disk_state' = g_disk_state]_vars

\* disk_init with the size of another disk has been refused in a session that
\* has written a block: the session has its geometry and is dirty
C31_Witness ==
    /\ call.op = "disk_init"
    /\ call.ret = DISK_ERROR_ALREADY_INIT
    /\ g_disk_state.is_initialized
    /\ g_disk_state.is_dirty
    /\ call.a[1] # g_disk_state.total_blocks * BLOCK_SIZE
    /\ call.a[1] > 0 /\ call.a[1] % BLOCK_SIZE = 0

\* C32: a disk_write_block that returns DISK_SUCCESS leaves the session
\* dirty, one that fails (no session, block out of range) leaves the flag as
\* it is; a disk_sync that returns DISK_SUCCESS leaves it clear; the flag
\* becomes set in no other step than a successful write, and clear in no other
\* step than a successful sync, the sync that ends disk_format, a disk_close
\* or the end of the process: so it is set exactly when a write has succeeded
\* since the last successful sync.  After disk_close the flag is clear and the
\* file is what it was.
C32_DirtyFlag ==
    /\ [][call'.op = "disk_write_block"
          => g_disk_state'.is_dirty
               = (IF call'.ret = DISK_SUCCESS THEN TRUE ELSE g_disk_state.is_dirty)]_vars
    /\ [][(call'.op = "disk_sync" /\ call'.ret = DISK_SUCCESS)
          => ~g_disk_state'.is_dirty]_vars
    /\ [][(call'.op = "disk_sync" /\ call'.ret # DISK_SUCCESS)
          => g_disk_state'.is_dirty = g_disk_state.is_dirty]_vars
    /\ [][(~g_disk_state.is_dirty /\ g_disk_state'.is_dirty)
          => call'.op = "disk_write_block" /\ call'.ret = DISK_SUCCESS]_vars
    /\ [][(g_disk_state.is_dirty /\ ~g_disk_state'.is_dirty)
          => \/ call'.op \in {"disk_sync", "disk_format", "disk_close"}
                  /\ call'.ret = DISK_SUCCESS
             \/ call'.op = "restart"]_vars
    /\ [][(call'.op = "disk_close" /\ call'.ret = DISK_SUCCESS)
          => ~g_disk_state'.is_dirty /\ host' = host]_vars

\* a write to a block out of range has failed in a session that has written
\* and synced before: the session is not dirty
C32_Witness ==
    /\ call.op = "disk_write_block"
    /\ call.ret = DISK_ERROR_BLOCK_RANGE
    /\ g_disk_state.is_initialized
    /\ g_disk_state.stats.total_writes > 0
    /\ ~g_disk_state.is_dirty

(***************************************************************************)
(* The user table (SpecUsers)                                              *)
(***************************************************************************)
ActiveSlots(fs) == {i \in DOMAIN fs.users : fs.users[i].is_active # 0}
UidInUse(fs, uid) == \E i \in ActiveSlots(fs) : fs.users[i].uid = uid
NameInUse(fs, username) == \E i \in ActiveSlots(fs) : fs.users[i].username = username

Superuser(fs) == user_manager_is_root(fs.current_user_uid)

\* inode n can be read and the current uid is its owner
OwnerOf(h, d, fs, n) ==
    /\ InodeRecord(h, d, fs, n).ret = FS_SUCCESS
    /\ InodeRecord(h, d, fs, n).inode.owner_uid = fs.current_user_uid

\* C34: user_manager_chown by a current uid other than 0 returns
\* USER_ERROR_PERMISSION and the disk file is what it was; user_manager_chmod
\* of an inode that can be read, by a current uid that is neither 0 nor the
\* inode's owner, returns USER_ERROR_PERMISSION and the disk file is what it
\* was; user_manager_chmod of an inode that cannot be read returns
\* USER_ERROR_INVALID_PARAM whoever calls, the disk file what it was; a
\* user_manager_login that does not return USER_SUCCESS leaves g_fs_state as
\* it was.
C34_OwnerAndMode ==
    /\ [][(call'.op = "user_manager_chown" /\ ~Superuser(g_fs_state))
          => call'.ret = USER_ERROR_PERMISSION /\ host' = host]_vars
    /\ [][(/\ call'.op = "user_manager_chmod"
           /\ InodeRecord(host, g_disk_state, g_fs_state, call'.a[1]).ret = FS_SUCCESS
           /\ ~Superuser(g_fs_state)
           /\ ~OwnerOf(host, g_disk_state, g_fs_state, call'.a[1]))
          => call'.ret = USER_ERROR_PERMISSION /\ host' = host]_vars
    /\ [][(/\ call'.op = "user_manager_chmod"
           /\ InodeRecord(host, g_disk_state, g_fs_state, call'.a[1]).ret # FS_SUCCESS)
          => call'.ret = USER_ERROR_INVALID_PARAM /\ host' = host]_vars
    /\ [][(call'.op = "user_manager_login" /\ call'.ret # USER_SUCCESS)
          => g_fs_state' = g_fs_state]_vars

\* user_manager_chmod has returned USER_ERROR_PERMISSION to an account that
\* is logged in, on a file that another account owns
C34_Witness ==
    /\ call.op = "user_manager_chmod"
    /\ call.ret = USER_ERROR_PERMISSION
    /\ HasAccount(g_fs_state)
    /\ InodeRecord(host, g_disk_state, g_fs_state, call.a[1]).ret = FS_SUCCESS
    /\ InodeRecord(host, g_disk_state, g_fs_state, call.a[1]).inode.owner_uid
          \notin {0, g_fs_state.current_user_uid}

\* C34 as stated: after every user_manager_chmod by a current uid that is
\* neither 0 nor the owner of the inode (the call changes neither), the call
\* has returned USER_ERROR_PERMISSION
C34_AsStated ==
    (/\ call.op = "user_manager_chmod"
     /\ ~Superuser(g_fs_state)
     /\ ~OwnerOf(host, g_disk_state, g_fs_state, call.a[1]))
    => call.ret = USER_ERROR_PERMISSION

(***************************************************************************)
(* The layout with the constants of the build (SpecLayout)                 *)
(***************************************************************************)
\* data_blocks_start as fs_ops_init_superblock computes it
DataBlocksStart(sizeof_time_t) ==
    FS_INODE_TABLE_START
      + InodeTableBlocks(MAX_INODES, SizeofInode(sizeof_time_t), DISK_BLOCK_SIZE)

\* C35 as stated: for every inode number n with 1 <= n < total_inodes, the
\* block that the read and the write of inode n address is smaller than
\* data_blocks_start
C35_AsStated ==
    (/\ call.op = "inode_block_num"
     /\ 1 <= call.a[1]
     /\ call.a[1] < MAX_INODES)
    => call.ret < DataBlocksStart(call.a[2])

(***************************************************************************)
(* The blocks of the directory and of the files (SpecBlocks)               *)
(***************************************************************************)
\* the root directory inode and the inodes its valid entries name
ListedInodes(h, d, fs) ==
    {ROOT_INODE_NUM} \cup {RootEntry(h, d, fs, s).inode_number : s \in ValidSlots(h, d, fs)}
\* the direct-pointer slots in use, as <<inode number, index>>
PointerSlots(h, d, fs) ==
    {<<n, k>> : n \in ListedInodes(h, d, fs), k \in 0..(DIRECT_BLOCKS - 1)}
\* the block in the slot, 0 for an inode that cannot be read
PointerOf(h, d, fs, s) == InodeRecord(h, d, fs, s[1]).inode.direct_blocks[s[2]]
UsedSlots(h, d, fs) == {s \in PointerSlots(h, d, fs) : PointerOf(h, d, fs, s) # 0}
Mounted(d, fs) ==
    d.is_initialized /\ FsLoaded(fs) /\ fs.inode_bitmap.has_bitmap /\ fs.block_bitmap.has_bitmap

\* C36: while the filesystem is mounted, no two direct-pointer slots of the
\* root directory inode and of the inodes that have a valid directory entry
\* hold the same block, and every block they hold is a block of the data
\* region whose bit is set in the block bitmap in memory.
C36_BlocksApart ==
    Mounted(g_disk_state, g_fs_state) =>
        /\ \A s, t \in UsedSlots(host, g_disk_state, g_fs_state) :
              s # t => PointerOf(host, g_disk_state, g_fs_state, s)
                         # PointerOf(host, g_disk_state, g_fs_state, t)
        /\ \A s \in UsedSlots(host, g_disk_state, g_fs_state) :
              /\ PointerOf(host, g_disk_state, g_fs_state, s) >= g_fs_state.superblock.data_blocks_start
              /\ PointerOf(host, g_disk_state, g_fs_state, s) - g_fs_state.superblock.data_blocks_start
                    \in SetBits(g_fs_state.block_bitmap)

\* a file was written first and the directory has grown after it: the file
\* holds two blocks and the second block of the directory is a later one
C36_Witness ==
    /\ Mounted(g_disk_state, g_fs_state)
    /\ \A k \in 0..1 : <<ROOT_INODE_NUM, k>> \in UsedSlots(host, g_disk_state, g_fs_state)
    /\ \E n \in ListedInodes(host, g_disk_state, g_fs_state) \ {ROOT_INODE_NUM} :
          \A k \in 0..1 :
             /\ <<n, k>> \in UsedSlots(host, g_disk_state, g_fs_state)
             /\ PointerOf(host, g_disk_state, g_fs_state, <<n, k>>)
                   < PointerOf(host, g_disk_state, g_fs_state, <<ROOT_INODE_NUM, 1>>)

(***************************************************************************)
(* The end of the direct range (SpecSparse)                                *)
(***************************************************************************)
\* the call is fs_write through an open handle on a regular file whose cursor
\* is at or beyond the last byte the direct blocks hold
WriteBeyondRange ==
    /\ call'.op = "fs_write"
    /\ OpenRegular(host, g_disk_state, g_fs_state, call'.a[1])
    /\ g_fs_state.open_files[call'.a[1]].file_position >= MaxFileBytes

\* C37: no inode that the root directory lists has file_size greater than
\* DIRECT_BLOCKS * BLOCK_SIZE; fs_write with the cursor at or beyond
\* DIRECT_BLOCKS * BLOCK_SIZE leaves the disk file (inode, blocks) and
\* g_fs_state (bitmaps, cursor) as they were, and returns 0 when the
\* permission check admits the current user for writing,
\* FS_ERROR_PERMISSION otherwise.
C37_DirectRange ==
    /\ [](Mounted(g_disk_state, g_fs_state) =>
            \A n \in ListedInodes(host, g_disk_state, g_fs_state) \ {ROOT_INODE_NUM} :
               InodeRecord(host, g_disk_state, g_fs_state, n).inode.file_size <= MaxFileBytes)
    /\ [][WriteBeyondRange =>
            /\ host' = host
            /\ g_fs_state' = g_fs_state
            /\ call'.ret
                 = IF Admitted(g_fs_state,
                               HandleInode(host, g_disk_state, g_fs_state, call'.a[1]).inode,
                               FS_PERM_OWNER_WRITE)
                   THEN 0 ELSE FS_ERROR_PERMISSION]_vars

\* a write at the end of a file that fills its direct blocks has returned 0
C37_Witness ==
    /\ call.op = "fs_write"
    /\ call.ret = 0
    /\ OpenRegular(host, g_disk_state, g_fs_state, call.a[1])
    /\ g_fs_state.open_files[call.a[1]].file_position = MaxFileBytes
    /\ SizeOfHandle(host, g_disk_state, g_fs_state, call.a[1]) = MaxFileBytes

\* C37 as stated: the write returns 0, whoever the current user is
C37_AsStated ==
    [][WriteBeyondRange => call'.ret = 0]_vars

(***************************************************************************)
(* Loading after a restart (SpecAlloc)                                     *)
(***************************************************************************)
\* C38 as stated: the call of fs_create, fs_open or fs_write that loads the
\* superblock into an empty g_fs_state leaves both bitmaps in memory with
\* the number of bits of the filesystem on the disk (total_inodes, and the
\* blocks from data_blocks_start on) and a matching free_count
C38_AsStated ==
    [][(/\ call'.op \in {"fs_create", "fs_open", "fs_write"}
        /\ ~FsLoaded(g_fs_state)
        /\ FsLoaded(g_fs_state'))
       => /\ g_fs_state'.inode_bitmap.has_bitmap
          /\ g_fs_state'.block_bitmap.has_bitmap
          /\ g_fs_state'.inode_bitmap.total_bits = g_fs_state'.superblock.total_inodes
          /\ g_fs_state'.block_bitmap.total_bits
               = g_fs_state'.superblock.total_blocks - g_fs_state'.superblock.data_blocks_start
          /\ \A bm \in Bitmaps(g_fs_state') : bm.free_count = FreeBits(bm)]_vars

(***************************************************************************)
(* Handles across a format (SpecBlocks)                                    *)
(***************************************************************************)
\* C40 as stated: in the state that a completed format_disk leaves, every
\* slot of the handle table has reference count 0
C40_AsStated ==
    (call.op = "format_disk" /\ Mounted(g_disk_state, g_fs_state))
    => \A fd \in DOMAIN g_fs_state.open_files :
          g_fs_state.open_files[fd].reference_count = 0

(***************************************************************************)
(* Two handles on one file (SpecSparse)                                    *)
(***************************************************************************)
\* fd and other are two open handles on the same inode
SameFile(fs, fd, other) ==
    /\ fd # other
    /\ file_ops_validate_fd(fs, fd) = FS_SUCCESS
    /\ file_ops_validate_fd(fs, other) = FS_SUCCESS
    /\ fs.open_files[fd].inode_number = fs.open_files[other].inode_number

====
